---- MODULE Spec2Model ----
(***************************************************************************)
(* State-channel trading system: the StateChannelManager                   *)
(* (lib/protocol/channel.ts), the EIP-712 state-update signatures          *)
(* (lib/protocol/signatures.ts), the AuditLog (lib/matching/audit-log.ts)  *)
(* and the trading page's handlers (app/page.tsx).                         *)
(***************************************************************************)
EXTENDS Integers, Sequences, FiniteSets, TLC

\* ------------------------------------------------------------------ bounds
\* Highest sequence number a presented state update carries.
MaxSeq == 2
\* Timestamps (update.timestamp, order.expiresAt, fill.timestamp) and the
\* readings of Date.now().
MaxTime == 2
\* Cap on channel.nextNonce in the guard of getNextNonce.
MaxNonce == 2
\* Cap on the number of entries recorded in one log.
MaxLog == 2
\* Cap on the number of channels held in the manager's map at once.
MaxChannels == 1
\* Highest quantity of an order request.
MaxQty == 2
\* Cap on the ids generateId has handed out (to orders and fills) when an
\* order is accepted.
MaxIds == 3
MaxCalls == 2
MaxSockets == 2
MaxRequests == 3
MaxTransfers == 2
MaxAmount == 1
MaxRecords == 4

\* ------------------------------------------------------------------ values
ChannelIds == {"c1", "c2"}
Times == 1..MaxTime

\* JavaScript's undefined (a Map miss, an optional field that is not set).
Undefined == [undefined |-> TRUE]
\* JavaScript's null (a returned null).
Null == [null |-> TRUE]

\* An address string: the account it names and the letter case it is written
\* in ("checksum" is the mixed-case EIP-55 form ethers returns).
Address(key, form) == [key |-> key, form |-> form]
ToLowerCase(a) == [key |-> a.key, form |-> "lower"]

\* The accounts that sign are "alice" (the channel's user), "operator" and
\* "mallory" (a third party).  userAddress arguments: the user's address in
\* either letter case.
UserAddresses == {Address("alice", "checksum"), Address("alice", "lower")}
\* The operator address (page.tsx passes the all-digit 0x00..01).
OperatorAddresses == {Address("operator", "lower")}

\* Balances of a channel: {base, quote} decimal strings.
Balance(base, quote) == [base |-> base, quote |-> quote]
Balances == {Balance("0.1", "100"), Balance("0.2", "50")}

\* The EIP-712 domain constant of signatures.ts (DOMAIN there); chainId is the
\* only field that varies.
Domain == [name |-> "StateChannelTrading", version |-> "1", chainId |-> 1]
\* The chain the app's wallet clients are on (viem's sepolia); Domain.chainId
\* is mainnet's.
Sepolia == 11155111

\* ------------------------------------------------------------- signatures
\* The typed value both signStateUpdate and verifyStateUpdateSignature build.
TypedValue(stateUpdate) ==
    [channelId      |-> stateUpdate.channelId,
     sequence       |-> stateUpdate.sequence,
     baseBalance    |-> stateUpdate.balances.base,
     quoteBalance   |-> stateUpdate.balances.quote,
     cumulativeFees |-> stateUpdate.cumulativeFees,
     timestamp      |-> stateUpdate.timestamp]

\* A signature: who made it, over which domain and which typed value.
\* signStateUpdate replaces Domain.chainId by the signer's network.
SignStateUpdate(stateUpdate, signer, network) ==
    [kind    |-> "signature",
     signer  |-> signer,
     domain  |-> [Domain EXCEPT !.chainId = network],
     value   |-> TypedValue(stateUpdate)]

\* A string that is no signature at all (ethers throws on it).
Malformed == [kind |-> "malformed"]

\* ethers.verifyTypedData: the address recovered from the signature over
\* (domain, value).  Over any other digest it recovers an unrelated address.
RecoverAddress(domain, value, signature) ==
    IF signature.domain = domain /\ signature.value = value
    THEN Address(signature.signer, "checksum")
    ELSE Address("unrelated", "checksum")

VerifyStateUpdateSignature(stateUpdate, signature, expectedAddress) ==
    IF signature.kind = "malformed" THEN FALSE
    ELSE ToLowerCase(RecoverAddress(Domain, TypedValue(stateUpdate), signature))
            = ToLowerCase(expectedAddress)

\* ---------------------------------------------------------- state updates
\* The signed fields of a state update.
UpdateBodies ==
    [channelId : ChannelIds, sequence : 0..MaxSeq, balances : Balances,
     cumulativeFees : {"0"}, timestamp : Times]

WithSignatures(body, userSignature, operatorSignature) ==
    [channelId         |-> body.channelId,
     sequence          |-> body.sequence,
     balances          |-> body.balances,
     cumulativeFees    |-> body.cumulativeFees,
     timestamp         |-> body.timestamp,
     userSignature     |-> userSignature,
     operatorSignature |-> operatorSignature]

\* The same update with the other balances: what a signature over different
\* content was made for.
OtherBalances(body) ==
    [body EXCEPT !.balances = CHOOSE b \in Balances : b # body.balances]

\* Signatures that do not verify for `signer` over `body`: a third party's,
\* the counterparty's, the right signer's on another network, the right
\* signer's over other content, and a malformed string.
BadSignatures(body, signer) ==
    {SignStateUpdate(body, "mallory", Domain.chainId),
     SignStateUpdate(body, IF signer = "alice" THEN "operator" ELSE "alice",
                     Domain.chainId),
     SignStateUpdate(body, signer, Sepolia),
     SignStateUpdate(OtherBalances(body), signer, Domain.chainId),
     Malformed}

\* Every state update considered: dual-signed, or with one signature bad in
\* each of the ways above, or with both malformed.
StateUpdates ==
    UNION {
        LET user == SignStateUpdate(body, "alice", Domain.chainId)
            oper == SignStateUpdate(body, "operator", Domain.chainId)
        IN  {WithSignatures(body, user, oper)}
            \cup {WithSignatures(body, bad, oper) : bad \in BadSignatures(body, "alice")}
            \cup {WithSignatures(body, user, bad) : bad \in BadSignatures(body, "operator")}
            \cup {WithSignatures(body, Malformed, Malformed)}
        : body \in UpdateBodies}

\* The state updates delivered for channel `channelId` in a run, every
\* sequence number and timestamp at one balance: dual-signed, signed by the
\* user alone (the operator's signature is the user's), or signed by the
\* operator with the user's signature made on another network.
DeliveredUpdates(channelId) ==
    UNION {
        LET user == SignStateUpdate(body, "alice", Domain.chainId)
            oper == SignStateUpdate(body, "operator", Domain.chainId)
        IN  {WithSignatures(body, user, oper),
             WithSignatures(body, user, user),
             WithSignatures(body, SignStateUpdate(body, "alice", Sepolia), oper)}
        : body \in {x \in UpdateBodies :
                        x.channelId = channelId /\ x.balances = Balance("0.2", "50")}}

\* ------------------------------------------------------- intents and fills
\* signOrderIntent: the intent with the user's signature over its fields.
SignOrderIntent(orderIntent, signer, network) ==
    [marketId    |-> orderIntent.marketId,
     side        |-> orderIntent.side,
     quantity    |-> orderIntent.quantity,
     limitPrice  |-> orderIntent.limitPrice,
     nonce       |-> orderIntent.nonce,
     expiresAt   |-> orderIntent.expiresAt,
     userAddress |-> orderIntent.userAddress,
     signature   |-> [kind   |-> "signature",
                      signer |-> signer,
                      domain |-> [Domain EXCEPT !.chainId = network],
                      value  |-> orderIntent]]

\* What OrderForm hands to onSubmitOrder plus the nonce and address the page
\* adds: a limit buy on ETH-USDC.
UnsignedIntent(nonce, expiresAt) ==
    [marketId    |-> "ETH-USDC",
     side        |-> "buy",
     quantity    |-> "0.01",
     limitPrice  |-> "2000",
     nonce       |-> nonce,
     expiresAt   |-> expiresAt,
     userAddress |-> Address("alice", "checksum")]

\* The signed intents recorded through the manager's recordOrderIntent.
\* Nonce 0 with every expiry, and nonce 1 with the latest.
OrderIntents ==
    {SignOrderIntent(UnsignedIntent(0, e), "alice", Domain.chainId) : e \in Times}
    \cup {SignOrderIntent(UnsignedIntent(1, MaxTime), "alice", Domain.chainId)}

\* The fills the matching engine reports.
Fill(orderId, timestamp) ==
    [orderId |-> orderId, fillPrice |-> "2000", fillQuantity |-> "0.01",
     fee |-> "0.02", timestamp |-> timestamp, operatorSignature |-> "0xfill"]

\* The fills the matching engine reports: of one order at every time, and of
\* a second order at the latest.
Fills == {Fill("order_1", t) : t \in Times} \cup {Fill("order_2", MaxTime)}

\* ------------------------------------------------------------------ state
VARIABLES
    channels,        \* StateChannelManager.channels: id -> ChannelState
    auditLog,        \* StateChannelManager.auditLog: id -> {orders, fills, states}
    lastCall,        \* the last call made: its name, channel id, what was seen
                     \* of its argument, its return value and the
                     \* console.error line it printed
    highestAccepted, \* per channel id, the highest sequence ever accepted
    nonceCalls,      \* per channel id, the getNextNonce calls since initializeChannel
    logs,            \* AuditLog.logs (audit-log.ts): key -> AuditEntry[]
    page,            \* TradingPage: address, channel, the channel the event
                     \* listeners closed over, the matching client, a
                     \* cooperative close awaiting its withdrawal
    market,          \* the PredictionMarketState the caller of the matcher holds
    lastOrder,       \* the last matcher call: its name and the OrderResult
                     \* it returned
    idsGenerated,    \* the number of ids generateId has handed out
    clearNode,       \* a ClearNodeClient: its socket, its fields, the promises
                     \* pushStateUpdate returned and their timers, what its
                     \* user was told
    yellow,          \* a YellowNetworkClient: its socket, its fields, the
                     \* events it emitted
    yellowClient,    \* a YellowNetworkClient with every WebSocket it created:
                     \* ws, the queue, the once-listeners, the promises of
                     \* its requests and what it sent on which socket
    balanceManager   \* the BalanceManager: its balances and the calls of
                     \* allocateToChannel / withdrawFromChannel in flight

channelVars == <<channels, auditLog, lastCall, highestAccepted, nonceCalls, logs, page>>
matcherVars == <<market, lastOrder, idsGenerated>>
fundVars == <<yellowClient, balanceManager>>
clientVars == <<clearNode, yellow, fundVars>>
vars == <<channels, auditLog, lastCall, highestAccepted, nonceCalls, logs, page,
          market, lastOrder, idsGenerated, clearNode, yellow, yellowClient,
          balanceManager>>

Call(op, id, arg, result, console) ==
    [op |-> op, id |-> id, arg |-> arg, result |-> result, console |-> console]

\* ------------------------------------------------- StateChannelManager
\* Each method is an operator from the two maps and its arguments to the maps
\* after the call, the value returned and the console.error line.
Outcome(chs, log, result, console) ==
    [channels |-> chs, auditLog |-> log, result |-> result, console |-> console]

NewChannel(channelId, userAddress, operatorAddress, initialBalances) ==
    [id              |-> channelId,
     userAddress     |-> userAddress,
     operatorAddress |-> operatorAddress,
     sequence        |-> 0,
     balances        |-> initialBalances,
     status          |-> "opening",
     latestState     |-> Undefined,
     nextNonce       |-> 0]

initializeChannel(chs, log, channelId, userAddress, operatorAddress, initialBalances) ==
    Outcome([chs EXCEPT ![channelId] =
                NewChannel(channelId, userAddress, operatorAddress, initialBalances)],
            [log EXCEPT ![channelId] = [orders |-> <<>>, fills |-> <<>>, states |-> <<>>]],
            NewChannel(channelId, userAddress, operatorAddress, initialBalances),
            "")

\* Faulty variant: an accepted update is not pushed onto the recorded
\* states.
updateChannelStateUnlogged(chs, log, channelId, newState) ==
    LET channel == chs[channelId] IN
    IF channel = Undefined
    THEN Outcome(chs, log, FALSE, "Channel not found")
    ELSE IF newState.sequence <= channel.sequence
    THEN Outcome(chs, log, FALSE, "Invalid sequence number")
    ELSE IF ~VerifyStateUpdateSignature(newState, newState.userSignature,
                                        channel.userAddress)
    THEN Outcome(chs, log, FALSE, "Invalid user signature")
    ELSE IF ~VerifyStateUpdateSignature(newState, newState.operatorSignature,
                                        channel.operatorAddress)
    THEN Outcome(chs, log, FALSE, "Invalid operator signature")
    ELSE Outcome(
            [chs EXCEPT ![channelId] =
                [channel EXCEPT !.sequence = newState.sequence,
                                !.balances = newState.balances,
                                !.latestState = newState]],
            log, TRUE, "")

\* Faulty variant: only the next consecutive sequence number passes the
\* sequence test.
updateChannelStateContiguous(chs, log, channelId, newState) ==
    LET channel == chs[channelId] IN
    IF channel = Undefined
    THEN Outcome(chs, log, FALSE, "Channel not found")
    ELSE IF newState.sequence # channel.sequence + 1
    THEN Outcome(chs, log, FALSE, "Invalid sequence number")
    ELSE IF ~VerifyStateUpdateSignature(newState, newState.userSignature,
                                        channel.userAddress)
    THEN Outcome(chs, log, FALSE, "Invalid user signature")
    ELSE IF ~VerifyStateUpdateSignature(newState, newState.operatorSignature,
                                        channel.operatorAddress)
    THEN Outcome(chs, log, FALSE, "Invalid operator signature")
    ELSE Outcome(
            [chs EXCEPT ![channelId] =
                [channel EXCEPT !.sequence = newState.sequence,
                                !.balances = newState.balances,
                                !.latestState = newState]],
            IF log[channelId] = Undefined THEN log
            ELSE [log EXCEPT ![channelId].states = Append(@, newState)],
            TRUE, "")

\* Faulty variant: the stale-sequence test written with < in place of <=, so
\* an update at the channel's own sequence number passes it.
updateChannelStateBelowOnly(chs, log, channelId, newState) ==
    LET channel == chs[channelId] IN
    IF channel = Undefined
    THEN Outcome(chs, log, FALSE, "Channel not found")
    ELSE IF newState.sequence < channel.sequence
    THEN Outcome(chs, log, FALSE, "Invalid sequence number")
    ELSE IF ~VerifyStateUpdateSignature(newState, newState.userSignature,
                                        channel.userAddress)
    THEN Outcome(chs, log, FALSE, "Invalid user signature")
    ELSE IF ~VerifyStateUpdateSignature(newState, newState.operatorSignature,
                                        channel.operatorAddress)
    THEN Outcome(chs, log, FALSE, "Invalid operator signature")
    ELSE Outcome(
            [chs EXCEPT ![channelId] =
                [channel EXCEPT !.sequence = newState.sequence,
                                !.balances = newState.balances,
                                !.latestState = newState]],
            IF log[channelId] = Undefined THEN log
            ELSE [log EXCEPT ![channelId].states = Append(@, newState)],
            TRUE, "")

\* Faulty variant: the operator's signature is verified against the user's
\* address, so an update the user signed twice is accepted.
updateChannelStateUserTwice(chs, log, channelId, newState) ==
    LET channel == chs[channelId] IN
    IF channel = Undefined
    THEN Outcome(chs, log, FALSE, "Channel not found")
    ELSE IF newState.sequence <= channel.sequence
    THEN Outcome(chs, log, FALSE, "Invalid sequence number")
    ELSE IF ~VerifyStateUpdateSignature(newState, newState.userSignature,
                                        channel.userAddress)
    THEN Outcome(chs, log, FALSE, "Invalid user signature")
    ELSE IF ~VerifyStateUpdateSignature(newState, newState.operatorSignature,
                                        channel.userAddress)
    THEN Outcome(chs, log, FALSE, "Invalid operator signature")
    ELSE Outcome(
            [chs EXCEPT ![channelId] =
                [channel EXCEPT !.sequence = newState.sequence,
                                !.balances = newState.balances,
                                !.latestState = newState]],
            IF log[channelId] = Undefined THEN log
            ELSE [log EXCEPT ![channelId].states = Append(@, newState)],
            TRUE, "")

\* Faulty variant: channel.sequence is assigned as soon as the sequence test
\* passes, before the signatures are verified, so a rejection for a bad
\* signature leaves the new sequence number behind.
updateChannelStateEagerSequence(chs, log, channelId, newState) ==
    LET channel == chs[channelId]
        advanced == [chs EXCEPT ![channelId].sequence = newState.sequence]
    IN
    IF channel = Undefined
    THEN Outcome(chs, log, FALSE, "Channel not found")
    ELSE IF newState.sequence <= channel.sequence
    THEN Outcome(chs, log, FALSE, "Invalid sequence number")
    ELSE IF ~VerifyStateUpdateSignature(newState, newState.userSignature,
                                        channel.userAddress)
    THEN Outcome(advanced, log, FALSE, "Invalid user signature")
    ELSE IF ~VerifyStateUpdateSignature(newState, newState.operatorSignature,
                                        channel.operatorAddress)
    THEN Outcome(advanced, log, FALSE, "Invalid operator signature")
    ELSE Outcome(
            [chs EXCEPT ![channelId] =
                [channel EXCEPT !.sequence = newState.sequence,
                                !.balances = newState.balances,
                                !.latestState = newState]],
            IF log[channelId] = Undefined THEN log
            ELSE [log EXCEPT ![channelId].states = Append(@, newState)],
            TRUE, "")

updateChannelState(chs, log, channelId, newState) ==
    LET channel == chs[channelId] IN
    IF channel = Undefined
    THEN Outcome(chs, log, FALSE, "Channel not found")
    ELSE IF newState.sequence <= channel.sequence
    THEN Outcome(chs, log, FALSE, "Invalid sequence number")
    ELSE IF ~VerifyStateUpdateSignature(newState, newState.userSignature,
                                        channel.userAddress)
    THEN Outcome(chs, log, FALSE, "Invalid user signature")
    ELSE IF ~VerifyStateUpdateSignature(newState, newState.operatorSignature,
                                        channel.operatorAddress)
    THEN Outcome(chs, log, FALSE, "Invalid operator signature")
    ELSE Outcome(
            [chs EXCEPT ![channelId] =
                [channel EXCEPT !.sequence = newState.sequence,
                                !.balances = newState.balances,
                                !.latestState = newState]],
            IF log[channelId] = Undefined THEN log
            ELSE [log EXCEPT ![channelId].states = Append(@, newState)],
            TRUE, "")

\* Faulty variant: return ++channel.nextNonce, the counter after the
\* increment.
getNextNoncePreIncrement(chs, log, channelId) ==
    LET channel == chs[channelId] IN
    IF channel = Undefined
    THEN Outcome(chs, log, Undefined, "throw: Channel not found")
    ELSE Outcome([chs EXCEPT ![channelId].nextNonce = channel.nextNonce + 1],
                 log, channel.nextNonce + 1, "")

\* getNextNonce throws on an unknown channel: nothing changes, nothing is
\* returned.
getNextNonce(chs, log, channelId) ==
    LET channel == chs[channelId] IN
    IF channel = Undefined
    THEN Outcome(chs, log, Undefined, "throw: Channel not found")
    ELSE Outcome([chs EXCEPT ![channelId].nextNonce = channel.nextNonce + 1],
                 log, channel.nextNonce, "")

SetStatus(chs, log, channelId, status) ==
    IF chs[channelId] = Undefined
    THEN Outcome(chs, log, Undefined, "")
    ELSE Outcome([chs EXCEPT ![channelId].status = status], log, Undefined, "")

initiateCooperativeClose(chs, log, channelId) == SetStatus(chs, log, channelId, "closing")

initiateForceExit(chs, log, channelId) == SetStatus(chs, log, channelId, "disputed")

finalizeClose(chs, log, channelId) == SetStatus(chs, log, channelId, "closed")

clearChannel(chs, log, channelId) ==
    Outcome([chs EXCEPT ![channelId] = Undefined],
            [log EXCEPT ![channelId] = Undefined],
            Undefined, "")

recordOrderIntent(chs, log, channelId, order) ==
    IF log[channelId] = Undefined
    THEN Outcome(chs, log, Undefined, "")
    ELSE Outcome(chs, [log EXCEPT ![channelId].orders = Append(@, order)], Undefined, "")

recordFill(chs, log, channelId, fill) ==
    IF log[channelId] = Undefined
    THEN Outcome(chs, log, Undefined, "")
    ELSE Outcome(chs, [log EXCEPT ![channelId].fills = Append(@, fill)], Undefined, "")

\* Faulty variant of the intents' filter: >= in place of >, keeping an intent
\* that expires at the very timestamp of the latest state.
RECURSIVE FilterExpiresFrom(_, _)
FilterExpiresFrom(orders, timestamp) ==
    IF orders = <<>> THEN <<>>
    ELSE IF Head(orders).expiresAt >= timestamp
         THEN <<Head(orders)>> \o FilterExpiresFrom(Tail(orders), timestamp)
         ELSE FilterExpiresFrom(Tail(orders), timestamp)

\* Array.prototype.filter with the two predicates generateForceExitProof uses.
RECURSIVE FilterExpiresAfter(_, _)
FilterExpiresAfter(orders, timestamp) ==
    IF orders = <<>> THEN <<>>
    ELSE IF Head(orders).expiresAt > timestamp
         THEN <<Head(orders)>> \o FilterExpiresAfter(Tail(orders), timestamp)
         ELSE FilterExpiresAfter(Tail(orders), timestamp)

RECURSIVE FilterStampedAfter(_, _)
FilterStampedAfter(fills, timestamp) ==
    IF fills = <<>> THEN <<>>
    ELSE IF Head(fills).timestamp > timestamp
         THEN <<Head(fills)>> \o FilterStampedAfter(Tail(fills), timestamp)
         ELSE FilterStampedAfter(Tail(fills), timestamp)

\* Faulty variant: the test for a latest state is left out, and a channel
\* without one yields a proof holding everything recorded.
generateForceExitProofUnanchored(chs, log, channelId, dateNow) ==
    LET channel == chs[channelId] IN
    IF channel = Undefined \/ log[channelId] = Undefined
    THEN Outcome(chs, log, Null, "Cannot generate proof: missing channel or state")
    ELSE IF channel.latestState = Undefined
    THEN Outcome(chs, log,
            [channelId    |-> channelId,
             latestState  |-> Undefined,
             orderIntents |-> log[channelId].orders,
             fills        |-> log[channelId].fills,
             generatedAt  |-> dateNow],
            "")
    ELSE Outcome(chs, log,
            [channelId    |-> channelId,
             latestState  |-> channel.latestState,
             orderIntents |-> FilterExpiresAfter(log[channelId].orders,
                                                 channel.latestState.timestamp),
             fills        |-> FilterStampedAfter(log[channelId].fills,
                                                 channel.latestState.timestamp),
             generatedAt  |-> dateNow],
            "")

generateForceExitProof(chs, log, channelId, dateNow) ==
    LET channel == chs[channelId] IN
    IF channel = Undefined \/ log[channelId] = Undefined
    THEN Outcome(chs, log, Null, "Cannot generate proof: missing channel or state")
    ELSE IF channel.latestState = Undefined
    THEN Outcome(chs, log, Null, "Cannot generate proof: missing channel or state")
    ELSE Outcome(chs, log,
            [channelId    |-> channelId,
             latestState  |-> channel.latestState,
             orderIntents |-> FilterExpiresAfter(log[channelId].orders,
                                                 channel.latestState.timestamp),
             fills        |-> FilterStampedAfter(log[channelId].fills,
                                                 channel.latestState.timestamp),
             generatedAt  |-> dateNow],
            "")

\* JSON.stringify(proof, null, 2): a text, not the proof object.
JsonText(value) == [json |-> value]

exportProof(chs, log, channelId, dateNow) ==
    LET generated == generateForceExitProof(chs, log, channelId, dateNow) IN
    IF generated.result = Null THEN generated
    ELSE Outcome(chs, log, JsonText(generated.result), "")

\* Texts that JSON.parse rejects with a SyntaxError: the empty text, a
\* truncated export, a text that is no JSON at all.
InvalidTexts == {[text |-> ""], [text |-> "{ \"channelId\": "], [text |-> "not json"]}

\* JSON.parse(text): the value a JSON text stands for, or a SyntaxError.
\* A proof holds strings, finite numbers, arrays and plain objects only
\* (types.ts 5-59, 101-112), which JSON.stringify writes without loss.
JsonParse(text) ==
    IF "json" \in DOMAIN text
    THEN [value |-> text.json, thrown |-> ""]
    ELSE [value |-> Undefined, thrown |-> "SyntaxError"]

\* Faulty variant: without the try / catch the SyntaxError escapes.
importProofUnguarded(chs, log, proofJson) ==
    LET parsed == JsonParse(proofJson) IN
    IF parsed.thrown = ""
    THEN Outcome(chs, log, parsed.value, "")
    ELSE Outcome(chs, log, Undefined, "throw: SyntaxError")

\* importProof: the parsed value, or null and a console.error line when
\* JSON.parse throws.
importProof(chs, log, proofJson) ==
    LET parsed == JsonParse(proofJson) IN
    IF parsed.thrown = ""
    THEN Outcome(chs, log, parsed.value, "")
    ELSE Outcome(chs, log, Null, "Failed to import proof:")

\* ------------------------------------------------------------- AuditLog
\* The capacity of one channel's log: 10,000 in audit-log.ts, scaled down.
AuditLogCapacity == 2

\* Faulty variant: a full log refuses the new entry.
addEntryKeepOldest(entries, channelId, entry) ==
    LET channelLog == Append(entries[channelId], entry)
    IN  [entries EXCEPT ![channelId] =
            IF Len(channelLog) > AuditLogCapacity
            THEN SubSeq(channelLog, 1, AuditLogCapacity) ELSE channelLog]

\* A key the map does not hold reads as the empty list, as getLog returns it.
addEntry(entries, channelId, entry) ==
    LET channelLog == Append(entries[channelId], entry)
    IN  [entries EXCEPT ![channelId] =
            IF Len(channelLog) > AuditLogCapacity THEN Tail(channelLog) ELSE channelLog]

recordOrder(entries, channelId, order, dateNow) ==
    addEntry(entries, channelId, [timestamp |-> dateNow, type |-> "order", data |-> order])

auditLogRecordFill(entries, channelId, fill, dateNow) ==
    addEntry(entries, channelId, [timestamp |-> dateNow, type |-> "fill", data |-> fill])

recordStateUpdate(entries, channelId, stateUpdate, dateNow) ==
    addEntry(entries, channelId,
             [timestamp |-> dateNow, type |-> "state_update", data |-> stateUpdate])

\* ------------------------------------------- what a call's argument was
\* `signature` was made by the holder of `address` over this very update and
\* the domain the verifier uses.
SignedBy(stateUpdate, signature, address) ==
    /\ signature.kind = "signature"
    /\ signature.signer = address.key
    /\ signature.domain = Domain
    /\ signature.value = TypedValue(stateUpdate)

DualSigned(stateUpdate, channel) ==
    /\ SignedBy(stateUpdate, stateUpdate.userSignature, channel.userAddress)
    /\ SignedBy(stateUpdate, stateUpdate.operatorSignature, channel.operatorAddress)

\* The update carries the sequence number of the channel's latest accepted
\* state but other content: the two are a fork.
Conflicts(stateUpdate, channel) ==
    /\ channel.latestState # Undefined
    /\ stateUpdate.sequence = channel.latestState.sequence
    /\ TypedValue(stateUpdate) # TypedValue(channel.latestState)

\* What lastCall keeps of a presented update.
Presented(chs, channelId, stateUpdate) ==
    [sequence   |-> stateUpdate.sequence,
     dualSigned |-> chs[channelId] # Undefined /\ DualSigned(stateUpdate, chs[channelId]),
     conflicts  |-> /\ chs[channelId] # Undefined
                    /\ DualSigned(stateUpdate, chs[channelId])
                    /\ Conflicts(stateUpdate, chs[channelId])]

\* ---------------------------------------------------------------- actions
\* A call of a manager method from outside the page.
Commit(op, id, arg, out) ==
    /\ channels' = out.channels
    /\ auditLog' = out.auditLog
    /\ lastCall' = Call(op, id, arg, out.result, out.console)
    /\ UNCHANGED <<logs, page>>
    /\ UNCHANGED <<matcherVars, clientVars>>

NumChannels == Cardinality({c \in ChannelIds : channels[c] # Undefined})

InitializeChannel ==
    \E c \in ChannelIds, u \in UserAddresses, o \in OperatorAddresses, b \in Balances :
        /\ channels[c] # Undefined \/ NumChannels < MaxChannels
        /\ Commit("initializeChannel", c, Undefined,
                  initializeChannel(channels, auditLog, c, u, o, b))
        /\ nonceCalls' = [nonceCalls EXCEPT ![c] = 0]
        /\ UNCHANGED highestAccepted

UpdateChannelState ==
    \E c \in ChannelIds : \E newState \in DeliveredUpdates(c) :
        LET out == updateChannelState(channels, auditLog, c, newState) IN
        /\ Commit("updateChannelState", c, Presented(channels, c, newState), out)
        /\ highestAccepted' =
              IF out.result /\ newState.sequence > highestAccepted[c]
              THEN [highestAccepted EXCEPT ![c] = newState.sequence]
              ELSE highestAccepted
        /\ UNCHANGED nonceCalls

\* updateChannelState(channelId, newState) with an update made out for any
\* channel, channelId's or another's.
UpdateChannelStateOfAny ==
    \E c \in ChannelIds, signedFor \in ChannelIds :
    \E newState \in DeliveredUpdates(signedFor) :
        LET out == updateChannelState(channels, auditLog, c, newState) IN
        /\ Commit("updateChannelState", c, Presented(channels, c, newState), out)
        /\ highestAccepted' =
              IF out.result /\ newState.sequence > highestAccepted[c]
              THEN [highestAccepted EXCEPT ![c] = newState.sequence]
              ELSE highestAccepted
        /\ UNCHANGED nonceCalls

GetNextNonce ==
    \E c \in ChannelIds :
        /\ channels[c] # Undefined => channels[c].nextNonce < MaxNonce
        /\ Commit("getNextNonce", c, Undefined, getNextNonce(channels, auditLog, c))
        /\ nonceCalls' = IF channels[c] = Undefined THEN nonceCalls
                         ELSE [nonceCalls EXCEPT ![c] = @ + 1]
        /\ UNCHANGED highestAccepted

InitiateCooperativeClose ==
    \E c \in ChannelIds :
        /\ Commit("initiateCooperativeClose", c, Undefined,
                  initiateCooperativeClose(channels, auditLog, c))
        /\ UNCHANGED <<highestAccepted, nonceCalls>>

InitiateForceExit ==
    \E c \in ChannelIds :
        /\ Commit("initiateForceExit", c, Undefined,
                  initiateForceExit(channels, auditLog, c))
        /\ UNCHANGED <<highestAccepted, nonceCalls>>

FinalizeClose ==
    \E c \in ChannelIds :
        /\ Commit("finalizeClose", c, Undefined, finalizeClose(channels, auditLog, c))
        /\ UNCHANGED <<highestAccepted, nonceCalls>>

ClearChannel ==
    \E c \in ChannelIds :
        /\ Commit("clearChannel", c, Undefined, clearChannel(channels, auditLog, c))
        /\ nonceCalls' = [nonceCalls EXCEPT ![c] = 0]
        /\ UNCHANGED highestAccepted

\* Entries recorded in one channel's log of the manager.
Recorded(c) == Len(auditLog[c].orders) + Len(auditLog[c].fills)

RecordOrderIntent ==
    \E c \in ChannelIds, order \in OrderIntents :
        /\ auditLog[c] # Undefined => Recorded(c) < MaxLog
        /\ Commit("recordOrderIntent", c, Undefined,
                  recordOrderIntent(channels, auditLog, c, order))
        /\ UNCHANGED <<highestAccepted, nonceCalls>>

RecordFill ==
    \E c \in ChannelIds, fill \in Fills :
        /\ auditLog[c] # Undefined => Recorded(c) < MaxLog
        /\ Commit("recordFill", c, Undefined, recordFill(channels, auditLog, c, fill))
        /\ UNCHANGED <<highestAccepted, nonceCalls>>

GenerateForceExitProof ==
    \E c \in ChannelIds, dateNow \in Times :
        /\ Commit("generateForceExitProof", c, Undefined,
                  generateForceExitProof(channels, auditLog, c, dateNow))
        /\ UNCHANGED <<highestAccepted, nonceCalls>>

ExportProof ==
    \E c \in ChannelIds, dateNow \in Times :
        /\ Commit("exportProof", c, Undefined, exportProof(channels, auditLog, c, dateNow))
        /\ UNCHANGED <<highestAccepted, nonceCalls>>

\* importProof of the text exportProof returns for a channel, or of a text
\* that is no JSON.
ImportProof ==
    \E c \in ChannelIds, dateNow \in Times :
    \E proofJson \in {exportProof(channels, auditLog, c, dateNow).result} \cup InvalidTexts :
        /\ proofJson # Null
        /\ Commit("importProof", c, [proofJson |-> proofJson, dateNow |-> dateNow],
                  importProof(channels, auditLog, proofJson))
        /\ UNCHANGED <<highestAccepted, nonceCalls>>

\* ------------------------------------------------------- the trading page
\* Intents expire 60,000 ms after Date.now() in OrderForm; one tick here.
OrderLifetime == 1

LogKeys == ChannelIds \cup {"default"}

\* The page's channel state when it holds no channel (null).
NoChannel == "null"

\* A handler of the page ran: the manager's maps after it, the page's log,
\* the page's state.
PageStep(op, id, result, console, chs, log, entries, newPage) ==
    /\ channels' = chs
    /\ auditLog' = log
    /\ logs' = entries
    /\ page' = newPage
    /\ lastCall' = Call(op, id, Undefined, result, console)
    /\ UNCHANGED highestAccepted
    /\ UNCHANGED <<matcherVars, clientVars>>

\* connectWallet: the button exists only while no address is set.  The
\* listeners registered by setupEventListeners close over the channel of the
\* render in which connectWallet was created.
ConnectWallet ==
    /\ page.address = Undefined
    /\ PageStep("connectWallet", "", Undefined, "", channels, auditLog, logs,
                [page EXCEPT !.address = Address("alice", "checksum"),
                             !.matchingClient = "created",
                             !.listenerChannel = page.channel])
    /\ UNCHANGED nonceCalls

\* connectWallet failing after setAddress (refreshBalances throws): the
\* address is set, no MatchingEngineClient is created and no listener is
\* registered; the page alerts.
ConnectWalletFails ==
    /\ page.address = Undefined
    /\ PageStep("connectWallet", "", Undefined, "Failed to connect wallet:",
                channels, auditLog, logs,
                [page EXCEPT !.address = Address("alice", "checksum")])
    /\ UNCHANGED nonceCalls

\* MatchingEngineClient.connect resolves: the socket is open.
MatchingClientOpen ==
    /\ page.matchingClient = "created"
    /\ PageStep("matchingClient.connect", "", Undefined, "", channels, auditLog, logs,
                [page EXCEPT !.matchingClient = "connected"])
    /\ UNCHANGED nonceCalls

\* disconnectWallet: clients dropped, the open channel cleared.
DisconnectWallet ==
    /\ page.address # Undefined
    /\ LET out == IF page.channel = NoChannel
                  THEN Outcome(channels, auditLog, Undefined, "")
                  ELSE clearChannel(channels, auditLog, page.channel)
       IN  /\ PageStep("disconnectWallet", "", Undefined, "",
                       out.channels, out.auditLog, logs,
                       [page EXCEPT !.address = Undefined,
                                    !.matchingClient = "none",
                                    !.channel = NoChannel])
           /\ nonceCalls' = IF page.channel = NoChannel THEN nonceCalls
                            ELSE [nonceCalls EXCEPT ![page.channel] = 0]

\* The id handleOpenChannel builds from the address and Date.now(): a new one
\* at every call.
FreshChannelId(opened) == IF opened = 0 THEN "c1" ELSE "c2"

\* handleOpenChannel: allocateToChannel may throw; otherwise a channel with a
\* fresh id is initialized and the page sets its status to active.
HandleOpenChannel ==
    /\ page.address # Undefined
    /\ \/ /\ PageStep("handleOpenChannel", "", Undefined, "throw: allocateToChannel",
                      channels, auditLog, logs, page)
          /\ UNCHANGED nonceCalls
       \/ \E amount \in Balances :
            LET c == FreshChannelId(page.opened)
                out == initializeChannel(channels, auditLog, c, page.address,
                                         Address("operator", "lower"), amount)
            IN  /\ page.opened < Cardinality(ChannelIds)
                /\ NumChannels < MaxChannels
                /\ PageStep("handleOpenChannel", c, Undefined, "",
                            [out.channels EXCEPT ![c].status = "active"],
                            out.auditLog, logs,
                            [page EXCEPT !.channel = c, !.opened = @ + 1])
                /\ nonceCalls' = [nonceCalls EXCEPT ![c] = 0]

\* Faulty variant: the intent is recorded after the submission, so that a
\* submission that throws leaves no record.
HandleSubmitOrderSubmitFirst ==
    /\ page.address # Undefined
    /\ page.channel # NoChannel
    /\ channels[page.channel] # Undefined
    /\ channels[page.channel].nextNonce < MaxNonce
    /\ \E dateNow \in Times :
        LET c == page.channel
            nonce == getNextNonce(channels, auditLog, c)
            signedOrder == SignOrderIntent(
                               [UnsignedIntent(nonce.result, dateNow + OrderLifetime)
                                   EXCEPT !.userAddress = page.address],
                               "alice", Sepolia)
        IN  /\ \/ PageStep("handleSubmitOrder", c, Undefined, "throw: signOrderIntent",
                           nonce.channels, nonce.auditLog, logs, page)
               \/ PageStep("handleSubmitOrder", c, Undefined,
                           IF page.matchingClient \in {"connected", "none"} THEN ""
                           ELSE "throw: Not connected to matching engine",
                           nonce.channels, nonce.auditLog,
                           IF page.matchingClient \in {"connected", "none"}
                           THEN recordOrder(logs, c, signedOrder, dateNow)
                           ELSE logs,
                           page)
            /\ nonceCalls' = [nonceCalls EXCEPT ![c] = @ + 1]

\* handleSubmitOrder: nonce, signature, audit log, submission.  Signing may
\* be refused by the wallet; submitOrder throws unless the client is
\* connected, and is not called when the page holds no client.
HandleSubmitOrder ==
    /\ page.address # Undefined
    /\ page.channel # NoChannel
    /\ channels[page.channel] # Undefined
    /\ channels[page.channel].nextNonce < MaxNonce
    /\ \E dateNow \in Times :
        LET c == page.channel
            nonce == getNextNonce(channels, auditLog, c)
            signedOrder == SignOrderIntent(
                               [UnsignedIntent(nonce.result, dateNow + OrderLifetime)
                                   EXCEPT !.userAddress = page.address],
                               "alice", Sepolia)
        IN  /\ \/ PageStep("handleSubmitOrder", c, Undefined, "throw: signOrderIntent",
                           nonce.channels, nonce.auditLog, logs, page)
               \/ PageStep("handleSubmitOrder", c, Undefined,
                           IF page.matchingClient \in {"connected", "none"} THEN ""
                           ELSE "throw: Not connected to matching engine",
                           nonce.channels, nonce.auditLog,
                           recordOrder(logs, c, signedOrder, dateNow), page)
            /\ nonceCalls' = [nonceCalls EXCEPT ![c] = @ + 1]

\* The fill listener: the key is the channel the listener closed over.  The
\* fill arrives at the time it is stamped with.
OnFill ==
    \E fill \in Fills, dateNow \in Times :
        /\ dateNow = fill.timestamp
        /\ page.matchingClient = "connected"
        /\ PageStep("on fill",
                    IF page.listenerChannel = NoChannel THEN "default"
                    ELSE page.listenerChannel,
                    Undefined, "", channels, auditLog,
                    auditLogRecordFill(logs,
                        IF page.listenerChannel = NoChannel THEN "default"
                        ELSE page.listenerChannel, fill, dateNow),
                    page)
        /\ UNCHANGED nonceCalls

\* The state_update listener: applies the update only if the listener closed
\* over a channel.
OnStateUpdate ==
    /\ page.matchingClient = "connected"
    /\ IF page.listenerChannel = NoChannel
       THEN PageStep("on state_update", "", Undefined, "", channels, auditLog, logs, page)
       ELSE \E stateUpdate \in DeliveredUpdates(page.listenerChannel) :
                LET out == updateChannelState(channels, auditLog, page.listenerChannel,
                                              stateUpdate)
                IN  PageStep("on state_update", page.listenerChannel, out.result,
                             out.console, out.channels, out.auditLog, logs, page)
    /\ UNCHANGED nonceCalls

\* handleCooperativeClose up to its await: the channel is marked closing and
\* the withdrawal is requested.
HandleCooperativeClose ==
    /\ page.channel # NoChannel
    /\ page.closing = NoChannel
    /\ LET out == initiateCooperativeClose(channels, auditLog, page.channel)
       IN  PageStep("handleCooperativeClose", page.channel, Undefined, "",
                    out.channels, out.auditLog, logs,
                    [page EXCEPT !.closing = page.channel])
    /\ UNCHANGED nonceCalls

\* The withdrawal settles: on success the close is finalized and the page
\* forgets the channel; on failure the handler rethrows.
WithdrawalSettles ==
    /\ page.closing # NoChannel
    /\ \/ LET out == finalizeClose(channels, auditLog, page.closing)
          IN  PageStep("handleCooperativeClose", page.closing, Undefined, "",
                       out.channels, out.auditLog, logs,
                       [page EXCEPT !.closing = NoChannel, !.channel = NoChannel])
       \/ PageStep("handleCooperativeClose", page.closing, Undefined,
                   "throw: withdrawFromChannel", channels, auditLog, logs,
                   [page EXCEPT !.closing = NoChannel])
    /\ UNCHANGED nonceCalls

\* handleForceExit: the channel is marked disputed and the proof exported.
HandleForceExit ==
    /\ page.channel # NoChannel
    /\ \E dateNow \in Times :
        LET out == initiateForceExit(channels, auditLog, page.channel)
            proof == exportProof(out.channels, out.auditLog, page.channel, dateNow)
        IN  PageStep("handleForceExit", page.channel, proof.result, proof.console,
                     out.channels, out.auditLog, logs, page)
    /\ UNCHANGED nonceCalls

\* ------------------------------------------- the prediction market matcher
\* Prices and usdc amounts are counted in ticks of 1/PriceUnit USDC: a price
\* p stands for p/PriceUnit, the limit prices strictly between 0 and 1 are
\* 1..PriceUnit-1, and price * quantity is a whole number of ticks.
PriceUnit == 3

\* request.price when the request carries none (undefined), and a last price
\* that is null.
NoPrice == -1

\* No validation error (validateRequest returns null).
NoError == ""

\* u1 and u2 trade; u3 never has a balance record.
Users == {"u1", "u2", "u3"}
Outcomes == {"YES", "NO"}
Sides == {"BUY", "SELL"}
OrderTypes == {"LIMIT", "MARKET"}

\* Every request considered: any user, any price field (absent, 0, a limit
\* price, 1) on either type, any quantity from 0.
OrderRequests ==
    [userId : Users, outcome : Outcomes, side : Sides, type : OrderTypes,
     price : {NoPrice} \cup 0..PriceUnit, quantity : 0..MaxQty]

\* The balances a snapshot starts with: cash only, or a little of each.
CashOnly == [usdc |-> 2 * PriceUnit, yes |-> 0, no |-> 0]
SeedBalances == {CashOnly, [usdc |-> 1, yes |-> 1, no |-> 1]}

EmptyOrderbook == [yesBids |-> <<>>, yesAsks |-> <<>>, noBids |-> <<>>, noAsks |-> <<>>]

createInitialState(dateNow) ==
    [orderbook    |-> EmptyOrderbook,
     balances     |-> [u \in Users |-> Undefined],
     fills        |-> <<>>,
     sequence     |-> 0,
     timestamp    |-> dateNow,
     lastYesPrice |-> NoPrice,
     lastNoPrice  |-> NoPrice]

\* The list of the book an order of this outcome and side belongs to.
ListOf(outcome, side) ==
    IF outcome = "YES"
    THEN IF side = "BUY" THEN "yesBids" ELSE "yesAsks"
    ELSE IF side = "BUY" THEN "noBids" ELSE "noAsks"

BookLists == {"yesBids", "yesAsks", "noBids", "noAsks"}

\* Faulty variant: the quantity test is left out.
validateRequestAnyQuantity(state, request) ==
    LET userBalance == state.balances[request.userId] IN
    IF userBalance = Undefined
    THEN "User not found. Please deposit first."
    ELSE IF request.type = "LIMIT" /\ request.price = NoPrice
    THEN "Price required for limit orders"
    ELSE IF request.type = "LIMIT" /\ (request.price <= 0 \/ request.price >= PriceUnit)
    THEN "Price must be between 0 and 1 USDC (exclusive)"
    ELSE IF request.side = "BUY"
    THEN LET requiredUSDC ==
                (IF request.price = NoPrice \/ request.price = 0
                 THEN PriceUnit ELSE request.price) * request.quantity
         IN  IF userBalance.usdc < requiredUSDC THEN "Insufficient USDC" ELSE NoError
    ELSE LET tokens == IF request.outcome = "YES" THEN userBalance.yes
                       ELSE userBalance.no
         IN  IF tokens < request.quantity THEN "Insufficient tokens" ELSE NoError

validateRequest(state, request) ==
    LET userBalance == state.balances[request.userId] IN
    IF userBalance = Undefined
    THEN "User not found. Please deposit first."
    ELSE IF request.quantity <= 0
    THEN "Quantity must be positive"
    ELSE IF request.type = "LIMIT" /\ request.price = NoPrice
    THEN "Price required for limit orders"
    ELSE IF request.type = "LIMIT" /\ (request.price <= 0 \/ request.price >= PriceUnit)
    THEN "Price must be between 0 and 1 USDC (exclusive)"
    ELSE IF request.side = "BUY"
    THEN LET requiredUSDC ==
                (IF request.price = NoPrice \/ request.price = 0
                 THEN PriceUnit ELSE request.price) * request.quantity
         IN  IF userBalance.usdc < requiredUSDC THEN "Insufficient USDC" ELSE NoError
    ELSE LET tokens == IF request.outcome = "YES" THEN userBalance.yes
                       ELSE userBalance.no
         IN  IF tokens < request.quantity THEN "Insufficient tokens" ELSE NoError

\* Faulty variant: both lists are ordered by price the wrong way round.
ComesBeforeWorstFirst(a, b, list) ==
    IF list \in {"yesAsks", "noAsks"}
    THEN a.price > b.price \/ (a.price = b.price /\ a.timestamp < b.timestamp)
    ELSE a.price < b.price \/ (a.price = b.price /\ a.timestamp < b.timestamp)

\* The comparators of Array.prototype.sort: asks by price ascending, bids by
\* price descending, earlier timestamp first among equal prices.
ComesBefore(a, b, list) ==
    IF list \in {"yesAsks", "noAsks"}
    THEN a.price < b.price \/ (a.price = b.price /\ a.timestamp < b.timestamp)
    ELSE a.price > b.price \/ (a.price = b.price /\ a.timestamp < b.timestamp)

\* Array.prototype.sort is stable: an order goes behind every order it does
\* not come before.
RECURSIVE InsertInOrder(_, _, _)
InsertInOrder(sorted, order, list) ==
    IF sorted = <<>> THEN <<order>>
    ELSE IF ComesBefore(order, Head(sorted), list)
         THEN <<order>> \o sorted
         ELSE <<Head(sorted)>> \o InsertInOrder(Tail(sorted), order, list)

\* Faulty variant: the list is left in the order of arrival.
SortOrdersAsPushed(orders, list) == orders

RECURSIVE SortOrders(_, _)
SortOrders(orders, list) ==
    IF orders = <<>> THEN <<>>
    ELSE InsertInOrder(SortOrders(SubSeq(orders, 1, Len(orders) - 1), list),
                       orders[Len(orders)], list)

\* The opposite side's list for the incoming order, sorted by price and time.
getMatchableOrders(orderbook, order) ==
    IF order.side = "BUY"
    THEN SortOrders(orderbook[ListOf(order.outcome, "SELL")], ListOf(order.outcome, "SELL"))
    ELSE SortOrders(orderbook[ListOf(order.outcome, "BUY")], ListOf(order.outcome, "BUY"))

\* Faulty variant: any two prices match.
canMatchAnyPrice(takerOrder, makerOrder) == TRUE

\* Faulty variant: equal prices do not match.
canMatchStrictly(takerOrder, makerOrder) ==
    IF takerOrder.side = "BUY"
    THEN takerOrder.price > makerOrder.price
    ELSE takerOrder.price < makerOrder.price

canMatch(takerOrder, makerOrder) ==
    IF takerOrder.side = "BUY"
    THEN takerOrder.price >= makerOrder.price
    ELSE takerOrder.price <= makerOrder.price

\* The outcome-token field of a balance.
Tokens(balance, outcome) == IF outcome = "YES" THEN balance.yes ELSE balance.no

Credit(balance, usdc, outcome, quantity) ==
    IF outcome = "YES"
    THEN [balance EXCEPT !.usdc = @ + usdc, !.yes = @ + quantity]
    ELSE [balance EXCEPT !.usdc = @ + usdc, !.no = @ + quantity]

\* Both balances are copied from the map first and written back taker first,
\* maker second.
updateBalancesForFill(balances, takerOrder, makerOrder, fill) ==
    LET usdcAmount == fill.price * fill.quantity
        takerBalance ==
            IF takerOrder.side = "BUY"
            THEN Credit(balances[takerOrder.userId], 0 - usdcAmount, fill.outcome,
                        fill.quantity)
            ELSE Credit(balances[takerOrder.userId], usdcAmount, fill.outcome,
                        0 - fill.quantity)
        makerBalance ==
            IF takerOrder.side = "BUY"
            THEN Credit(balances[makerOrder.userId], usdcAmount, fill.outcome,
                        0 - fill.quantity)
            ELSE Credit(balances[makerOrder.userId], 0 - usdcAmount, fill.outcome,
                        fill.quantity)
    IN  [[balances EXCEPT ![takerOrder.userId] = takerBalance]
            EXCEPT ![makerOrder.userId] = makerBalance]

\* cloneOrderbook copies the four arrays, not the orders in them: an
\* assignment to a field of an order shows in every book that holds it.
Assigned(orderbook, order) ==
    [l \in BookLists |->
        [i \in 1..Len(orderbook[l]) |->
            IF orderbook[l][i].id = order.id THEN order ELSE orderbook[l][i]]]

\* Faulty variant: a bid goes to the asks and an ask to the bids.
addToOrderbookOtherSide(orderbook, order) ==
    LET list == ListOf(order.outcome, IF order.side = "BUY" THEN "SELL" ELSE "BUY")
    IN  [orderbook EXCEPT ![list] = SortOrders(Append(@, order), list)]

addToOrderbook(orderbook, order) ==
    LET list == ListOf(order.outcome, order.side)
    IN  [orderbook EXCEPT ![list] = SortOrders(Append(@, order), list)]

\* Faulty variant: the order is left where it is.
removeFromOrderbookKept(orderbook, order) == orderbook

removeFromOrderbook(orderbook, order) ==
    [orderbook EXCEPT ![ListOf(order.outcome, order.side)] =
        SelectSeq(@, LAMBDA o : o.id # order.id)]

Min(a, b) == IF a <= b THEN a ELSE b

\* The loop of matchOrder over the matchable orders.  `acc` holds fills,
\* remainingQty, balances, orderbook (the clone), and currentBook: the book
\* of the snapshot passed in, whose orders the loop assigns to.
RECURSIVE MatchLoop(_, _, _, _, _)
MatchLoop(makers, order, nextFillId, dateNow, acc) ==
    IF makers = <<>> THEN acc
    ELSE IF acc.remainingQty <= 0 THEN acc
    ELSE IF ~canMatch(order, Head(makers)) THEN acc
    ELSE
        LET makerOrder == Head(makers)
            fillQty == Min(acc.remainingQty, makerOrder.remainingQuantity)
            fill == [id           |-> nextFillId,
                     makerOrderId |-> makerOrder.id,
                     takerOrderId |-> order.id,
                     price        |-> makerOrder.price,
                     quantity     |-> fillQty,
                     timestamp    |-> dateNow,
                     outcome      |-> order.outcome]
            reduced == [makerOrder EXCEPT
                            !.remainingQuantity = @ - fillQty,
                            !.status = IF makerOrder.remainingQuantity - fillQty = 0
                                       THEN "FILLED" ELSE @]
            assigned == Assigned(acc.orderbook, reduced)
        IN  MatchLoop(Tail(makers), order, nextFillId + 1, dateNow,
                [fills        |-> Append(acc.fills, fill),
                 remainingQty |-> acc.remainingQty - fillQty,
                 balances     |-> updateBalancesForFill(acc.balances, order,
                                                        makerOrder, fill),
                 orderbook    |-> IF reduced.remainingQuantity = 0
                                  THEN removeFromOrderbook(assigned, reduced)
                                  ELSE assigned,
                 currentBook  |-> Assigned(acc.currentBook, reduced)])

\* Faulty variant: the order handed back keeps its whole quantity as remainder.
matchOrderFullRemainder(state, order, dateNow) ==
    LET done == MatchLoop(getMatchableOrders(state.orderbook, order), order,
                          order.id + 1, dateNow,
                          [fills        |-> <<>>,
                           remainingQty |-> order.quantity,
                           balances     |-> state.balances,
                           orderbook    |-> state.orderbook,
                           currentBook  |-> state.orderbook])
    IN  [fills            |-> done.fills,
         updatedOrder     |-> order,
         updatedOrderbook |-> done.orderbook,
         updatedBalances  |-> done.balances,
         currentBook      |-> done.currentBook]

matchOrder(state, order, dateNow) ==
    LET done == MatchLoop(getMatchableOrders(state.orderbook, order), order,
                          order.id + 1, dateNow,
                          [fills        |-> <<>>,
                           remainingQty |-> order.quantity,
                           balances     |-> state.balances,
                           orderbook    |-> state.orderbook,
                           currentBook  |-> state.orderbook])
    IN  [fills            |-> done.fills,
         updatedOrder     |-> [order EXCEPT !.remainingQuantity = done.remainingQty],
         updatedOrderbook |-> done.orderbook,
         updatedBalances  |-> done.balances,
         currentBook      |-> done.currentBook]

\* Faulty variant: the last prices come from the first fill.
LastPricesOfFirstFill(fills, prices) ==
    IF fills = <<>> THEN prices
    ELSE IF Head(fills).outcome = "YES"
         THEN [yes |-> Head(fills).price, no |-> PriceUnit - Head(fills).price]
         ELSE [yes |-> PriceUnit - Head(fills).price, no |-> Head(fills).price]

\* The loop over the fills that sets the last prices.
RECURSIVE LastPrices(_, _)
LastPrices(fills, prices) ==
    IF fills = <<>> THEN prices
    ELSE LastPrices(Tail(fills),
            IF Head(fills).outcome = "YES"
            THEN [yes |-> Head(fills).price, no |-> PriceUnit - Head(fills).price]
            ELSE [yes |-> PriceUnit - Head(fills).price, no |-> Head(fills).price])

\* processOrder: the OrderResult, with currentState as the snapshot passed in
\* reads after the call.  generateId hands out `id` for the order and the
\* following ids for the fills.
processOrder(currentState, request, id, dateNow) ==
    LET validationError == validateRequest(currentState, request) IN
    IF validationError # NoError
    THEN [success      |-> FALSE,
          error        |-> validationError,
          order        |-> Undefined,
          fills        |-> <<>>,
          newState     |-> currentState,
          currentState |-> currentState]
    ELSE
        LET order == [id                |-> id,
                      userId            |-> request.userId,
                      outcome           |-> request.outcome,
                      side              |-> request.side,
                      type              |-> request.type,
                      price             |-> IF request.type = "MARKET"
                                            THEN (IF request.side = "BUY"
                                                  THEN PriceUnit ELSE 0)
                                            ELSE request.price,
                      quantity          |-> request.quantity,
                      remainingQuantity |-> request.quantity,
                      timestamp         |-> dateNow,
                      status            |-> "OPEN"]
            matched == matchOrder(currentState, order, dateNow)
            updatedOrder ==
                [matched.updatedOrder EXCEPT !.status =
                    IF matched.updatedOrder.remainingQuantity = 0 THEN "FILLED"
                    ELSE IF matched.updatedOrder.remainingQuantity
                                < matched.updatedOrder.quantity
                         THEN "PARTIAL" ELSE @]
            newOrderbook ==
                IF updatedOrder.remainingQuantity > 0 /\ updatedOrder.type = "LIMIT"
                THEN addToOrderbook(matched.updatedOrderbook, updatedOrder)
                ELSE matched.updatedOrderbook
            prices == LastPrices(matched.fills,
                                 [yes |-> currentState.lastYesPrice,
                                  no  |-> currentState.lastNoPrice])
        IN  [success      |-> TRUE,
             error        |-> NoError,
             order        |-> updatedOrder,
             fills        |-> matched.fills,
             newState     |-> [orderbook    |-> newOrderbook,
                               balances     |-> matched.updatedBalances,
                               fills        |-> currentState.fills \o matched.fills,
                               sequence     |-> currentState.sequence + 1,
                               timestamp    |-> dateNow,
                               lastYesPrice |-> prices.yes,
                               lastNoPrice  |-> prices.no],
             currentState |-> [currentState EXCEPT !.orderbook = matched.currentBook]]

\* Faulty variant: the owner is not compared.
RECURSIVE RemoveFirstAnyOwner(_, _, _)
RemoveFirstAnyOwner(orders, orderId, userId) ==
    IF orders = <<>> THEN <<>>
    ELSE IF Head(orders).id = orderId
         THEN Tail(orders)
         ELSE <<Head(orders)>> \o RemoveFirstAnyOwner(Tail(orders), orderId, userId)

\* removeFromList of cancelOrder: the first order with this id and owner.
RECURSIVE RemoveFirst(_, _, _)
RemoveFirst(orders, orderId, userId) ==
    IF orders = <<>> THEN <<>>
    ELSE IF Head(orders).id = orderId /\ Head(orders).userId = userId
         THEN Tail(orders)
         ELSE <<Head(orders)>> \o RemoveFirst(Tail(orders), orderId, userId)

cancelOrder(state, orderId, userId, dateNow) ==
    LET orderbook == [l \in BookLists |-> RemoveFirst(state.orderbook[l], orderId, userId)]
        found == \E l \in BookLists : Len(orderbook[l]) # Len(state.orderbook[l])
    IN  IF ~found THEN state
        ELSE [state EXCEPT !.orderbook = orderbook,
                           !.sequence = state.sequence + 1,
                           !.timestamp = dateNow]

\* aggregateOrders of getOrderbookDisplay: the Map from price to level, in
\* the order the prices were first met.
AddToLevels(levels, order) ==
    IF \E i \in 1..Len(levels) : levels[i].price = order.price
    THEN [i \in 1..Len(levels) |->
            IF levels[i].price = order.price
            THEN [levels[i] EXCEPT !.quantity = @ + order.remainingQuantity,
                                   !.orderCount = @ + 1]
            ELSE levels[i]]
    ELSE Append(levels, [price      |-> order.price,
                         quantity   |-> order.remainingQuantity,
                         orderCount |-> 1])

\* Faulty variant: every order makes a level of its own.
RECURSIVE aggregateOrdersUngrouped(_)
aggregateOrdersUngrouped(orders) ==
    IF orders = <<>> THEN <<>>
    ELSE Append(aggregateOrdersUngrouped(SubSeq(orders, 1, Len(orders) - 1)),
                [price      |-> orders[Len(orders)].price,
                 quantity   |-> orders[Len(orders)].remainingQuantity,
                 orderCount |-> 1])

RECURSIVE aggregateOrders(_)
aggregateOrders(orders) ==
    IF orders = <<>> THEN <<>>
    ELSE AddToLevels(aggregateOrders(SubSeq(orders, 1, Len(orders) - 1)),
                     orders[Len(orders)])

\* The sort of the levels by price (stable), descending for bids.
RECURSIVE InsertLevel(_, _, _)
InsertLevel(sorted, level, descending) ==
    IF sorted = <<>> THEN <<level>>
    ELSE IF (IF descending THEN level.price > Head(sorted).price
                           ELSE level.price < Head(sorted).price)
         THEN <<level>> \o sorted
         ELSE <<Head(sorted)>> \o InsertLevel(Tail(sorted), level, descending)

RECURSIVE SortLevels(_, _)
SortLevels(levels, descending) ==
    IF levels = <<>> THEN <<>>
    ELSE InsertLevel(SortLevels(SubSeq(levels, 1, Len(levels) - 1), descending),
                     levels[Len(levels)], descending)

\* getOrderbookDisplay.  bestYesBid and bestYesAsk are NoPrice when null;
\* spread and midPrice are the empty set when null and otherwise hold their
\* value, the spread in ticks and the mid-price in half ticks.
getOrderbookDisplay(state) ==
    LET yesBids == SortLevels(aggregateOrders(state.orderbook.yesBids), TRUE)
        yesAsks == SortLevels(aggregateOrders(state.orderbook.yesAsks), FALSE)
        bestYesBid == IF Len(yesBids) > 0 THEN yesBids[1].price ELSE NoPrice
        bestYesAsk == IF Len(yesAsks) > 0 THEN yesAsks[1].price ELSE NoPrice
    IN  [yesBids    |-> yesBids,
         yesAsks    |-> yesAsks,
         bestYesBid |-> bestYesBid,
         bestYesAsk |-> bestYesAsk,
         spread     |-> IF bestYesBid # NoPrice /\ bestYesAsk # NoPrice
                        THEN {bestYesAsk - bestYesBid} ELSE {},
         midPrice   |-> IF bestYesBid # NoPrice /\ bestYesAsk # NoPrice
                        THEN {bestYesBid + bestYesAsk} ELSE {}]

\* The requests submitted in a run: by u1 and u2, limit orders at every limit
\* price and market orders without a price field, of 1..MaxQty tokens on YES;
\* on NO one token at the lowest price, offered by u1 and bid for by u2.
SubmittedRequests ==
    {r \in OrderRequests :
        /\ r.userId \in {"u1", "u2"}
        /\ r.quantity > 0
        /\ r.type = "LIMIT" => r.price \in 1..(PriceUnit - 1)
        /\ r.type = "MARKET" => r.price = NoPrice
        /\ r.outcome = "NO" => r.type = "LIMIT" /\ r.price = 1 /\ r.quantity = 1
                                /\ r.userId = (IF r.side = "SELL" THEN "u1" ELSE "u2")}

\* The readings of Date.now() at a call on `state`: not before the state's
\* own timestamp.
ClockReadings(state) == {t \in Times : t >= state.timestamp}

\* What lastOrder keeps of a call.
OrderCall(op, result) ==
    [op |-> op, success |-> result.success, error |-> result.error,
     order |-> result.order, fills |-> result.fills]

\* A caller (the prediction page's handleSubmitOrder) runs processOrder on
\* the state it holds and, on success, holds the returned state.
ProcessOrder ==
    \E request \in SubmittedRequests, dateNow \in ClockReadings(market) :
        LET result == processOrder(market, request, idsGenerated + 1, dateNow) IN
        /\ result.success => idsGenerated < MaxIds
        /\ market' = result.newState
        /\ lastOrder' = OrderCall("processOrder", result)
        /\ idsGenerated' = IF result.success THEN idsGenerated + 1 + Len(result.fills)
                        ELSE idsGenerated
        /\ UNCHANGED <<channelVars, clientVars>>

CancelOrder ==
    \E orderId \in 1..MaxIds, userId \in {"u1", "u2"}, dateNow \in ClockReadings(market) :
        /\ market' = cancelOrder(market, orderId, userId, dateNow)
        /\ lastOrder' = [op |-> "cancelOrder", success |-> market' # market,
                         error |-> NoError, order |-> Undefined, fills |-> <<>>]
        /\ UNCHANGED idsGenerated
        /\ UNCHANGED <<channelVars, clientVars>>

\* The prediction page shows the book of the state it holds.
GetOrderbookDisplay ==
    /\ lastOrder' = [op |-> "getOrderbookDisplay", success |-> TRUE,
                     error |-> NoError, order |-> Undefined, fills |-> <<>>,
                     display |-> getOrderbookDisplay(market)]
    /\ UNCHANGED <<market, idsGenerated>>
    /\ UNCHANGED <<channelVars, clientVars>>

\* ------------------------------------------------- the AuditLog alone
\* Date.now() at a recording: later than at every recording before it, so
\* that an entry's timestamp tells the recordings apart.  The latest entry
\* of a log is never evicted, so the latest reading so far is in the logs.
LatestReading(entries) ==
    LET stamps == {entries[k][i].timestamp :
                     <<k, i>> \in {<<k, i>> \in LogKeys \X (1..AuditLogCapacity) :
                                        i <= Len(entries[k])}}
    IN  IF stamps = {} THEN 0 ELSE CHOOSE t \in stamps : \A u \in stamps : u <= t

\* A recording through one of AuditLog's three methods, as lastCall keeps it.
Recording(op, channelId, entries) ==
    Call(op, channelId, entries[channelId][Len(entries[channelId])], Undefined, "")

AuditLogRecordOrder ==
    \E channelId \in ChannelIds :
        /\ LatestReading(logs) < MaxRecords
        /\ logs' = recordOrder(logs, channelId,
                               SignOrderIntent(UnsignedIntent(0, MaxTime), "alice",
                                               Domain.chainId),
                               LatestReading(logs) + 1)
        /\ lastCall' = Recording("recordOrder", channelId, logs')
        /\ UNCHANGED <<channels, auditLog, highestAccepted, nonceCalls, page>>
        /\ UNCHANGED <<matcherVars, clientVars>>

AuditLogRecordFill ==
    \E channelId \in ChannelIds :
        /\ LatestReading(logs) < MaxRecords
        /\ logs' = auditLogRecordFill(logs, channelId, Fill("order_1", MaxTime),
                                      LatestReading(logs) + 1)
        /\ lastCall' = Recording("recordFill", channelId, logs')
        /\ UNCHANGED <<channels, auditLog, highestAccepted, nonceCalls, page>>
        /\ UNCHANGED <<matcherVars, clientVars>>

AuditLogRecordStateUpdate ==
    \E channelId \in ChannelIds :
    \E stateUpdate \in {u \in DeliveredUpdates(channelId) : u.sequence = 1} :
        /\ LatestReading(logs) < MaxRecords
        /\ logs' = recordStateUpdate(logs, channelId, stateUpdate,
                                     LatestReading(logs) + 1)
        /\ lastCall' = Recording("recordStateUpdate", channelId, logs')
        /\ UNCHANGED <<channels, auditLog, highestAccepted, nonceCalls, page>>
        /\ UNCHANGED <<matcherVars, clientVars>>

\* ------------------------------------------- signing and verifying alone
\* The accounts that sign and the networks their provider may be on (a
\* signer without provider signs with Domain.chainId).
Signers == {"alice", "operator", "mallory"}
Networks == {Domain.chainId, Sepolia}

\* The addresses a signature is checked against: each account's, in either
\* letter case.
ExpectedAddresses == {Address(key, form) : key \in Signers, form \in {"checksum", "lower"}}

\* The updates a signature over `body` is checked with: every update body,
\* and `body` with other fees.
CheckedBodies(body) == UpdateBodies \cup {[body EXCEPT !.cumulativeFees = "1"]}

\* One signature is made with signStateUpdate and checked with
\* verifyStateUpdateSignature, against any update and any address.
SignThenVerify ==
    /\ lastCall.op = "new"
    /\ \E body \in UpdateBodies, signer \in Signers, network \in Networks :
       \E checked \in CheckedBodies(body), expectedAddress \in ExpectedAddresses :
        /\ lastCall' = Call("verifyStateUpdateSignature", body.channelId,
                            [signed |-> body, signer |-> signer, network |-> network,
                             checked |-> checked, expectedAddress |-> expectedAddress],
                            VerifyStateUpdateSignature(
                                checked, SignStateUpdate(body, signer, network),
                                expectedAddress),
                            "")
        /\ UNCHANGED <<channels, auditLog, highestAccepted, nonceCalls, logs, page>>
        /\ UNCHANGED <<matcherVars, clientVars>>

\* -------------------------------------------------- the network clients
\* maxReconnectAttempts of both clients.
MaxReconnectAttempts == 5

\* The pushStateUpdate calls made in a run, numbered in the order made, and
\* the sequence numbers of the states pushed.
PushCalls == 1..MaxCalls
PushedSequences == 1..MaxSeq

\* What the handler of the last close event did: whether it found the
\* attempts exhausted, the callbacks it invoked (events it emitted), whether
\* it scheduled a reconnect.
NoClose == [exhausted |-> FALSE, notified |-> {}, scheduled |-> FALSE]

\* new ClearNodeClient(config).  socket is the WebSocket: none, connecting,
\* open, or closing (close() called, the close event not yet delivered).
\* pendingStateUpdates maps a sequence to the call whose resolve / reject it
\* holds (0: no entry); promises is the state of each call's promise;
\* timers the sequence each call's 10-second timer closed over (0: no timer
\* running).
NewClearNodeClient ==
    [socket              |-> "none",
     isConnected         |-> FALSE,
     isAuthenticated     |-> FALSE,
     reconnectAttempts   |-> 0,
     reconnectTimer      |-> FALSE,
     pendingStateUpdates |-> [s \in PushedSequences |-> 0],
     promises            |-> [c \in PushCalls |-> "none"],
     timers              |-> [c \in PushCalls |-> 0],
     callbacks           |-> {},
     lastClose           |-> NoClose]

\* ClearNodeClient.attemptReconnect, run by the close handler.
clearNodeAttemptReconnect(client) ==
    IF client.reconnectAttempts >= MaxReconnectAttempts
    THEN [client EXCEPT !.lastClose.exhausted = TRUE]
    ELSE [client EXCEPT !.reconnectAttempts = @ + 1,
                        !.reconnectTimer = TRUE,
                        !.lastClose.scheduled = TRUE]

\* connect(): a new WebSocket.
ClearNodeConnect ==
    /\ clearNode.socket = "none" /\ ~clearNode.reconnectTimer
    /\ clearNode' = [clearNode EXCEPT !.socket = "connecting"]
    /\ UNCHANGED <<channelVars, matcherVars, yellow, fundVars>>

\* ws.onopen
ClearNodeOnOpen ==
    /\ clearNode.socket = "connecting"
    /\ clearNode' = [clearNode EXCEPT !.socket = "open",
                                      !.isConnected = TRUE,
                                      !.reconnectAttempts = 0,
                                      !.callbacks = @ \cup {"connect"}]
    /\ UNCHANGED <<channelVars, matcherVars, yellow, fundVars>>

\* ws.onclose: of a socket that was open, failed to open, or was closed by
\* disconnect().
ClearNodeOnClose ==
    /\ clearNode.socket \in {"connecting", "open", "closing"}
    /\ clearNode' = clearNodeAttemptReconnect(
            [clearNode EXCEPT !.socket = "none",
                              !.isConnected = FALSE,
                              !.isAuthenticated = FALSE,
                              !.callbacks = @ \cup {"disconnect"},
                              !.lastClose = [NoClose EXCEPT !.notified = {"disconnect"}]])
    /\ UNCHANGED <<channelVars, matcherVars, yellow, fundVars>>

\* The setTimeout of attemptReconnect fires: connect().
ClearNodeReconnect ==
    /\ clearNode.reconnectTimer
    /\ clearNode' = [clearNode EXCEPT !.reconnectTimer = FALSE,
                                      !.socket = "connecting"]
    /\ UNCHANGED <<channelVars, matcherVars, yellow, fundVars>>

\* disconnect()
ClearNodeDisconnect ==
    /\ clearNode.socket \in {"connecting", "open"}
    /\ clearNode' = [clearNode EXCEPT !.socket = "closing",
                                      !.isConnected = FALSE,
                                      !.isAuthenticated = FALSE]
    /\ UNCHANGED <<channelVars, matcherVars, yellow, fundVars>>

\* handleMessage: auth_success
ClearNodeOnAuthSuccess ==
    /\ clearNode.socket = "open"
    /\ clearNode' = [clearNode EXCEPT !.isAuthenticated = TRUE,
                                      !.callbacks = @ \cup {"authenticated"}]
    /\ UNCHANGED <<channelVars, matcherVars, yellow, fundVars>>

\* pushStateUpdate(state, userSignature) as call number `call`, for a state
\* of this sequence: it throws (its promise is rejected at once) when not
\* connected or not authenticated.
pushStateUpdate(client, call, sequence) ==
    IF ~client.isConnected \/ ~client.isAuthenticated
    THEN [client EXCEPT !.promises[call] = "rejected"]
    ELSE [client EXCEPT !.pendingStateUpdates[sequence] = call,
                        !.promises[call] = "pending",
                        !.timers[call] = sequence]

PushStateUpdate ==
    \E call \in PushCalls, sequence \in PushedSequences :
        /\ clearNode.promises[call] = "none"
        /\ \A earlier \in 1..(call - 1) : clearNode.promises[earlier] # "none"
        /\ clearNode' = pushStateUpdate(clearNode, call, sequence)
        /\ UNCHANGED <<channelVars, matcherVars, yellow, fundVars>>

\* handleMessage: state_confirmed for a state of this sequence, with or
\* without clearNodeSignature.
ClearNodeOnStateConfirmed ==
    \E sequence \in PushedSequences, signed \in BOOLEAN :
        /\ clearNode.socket = "open"
        /\ clearNode' =
              IF ~signed THEN clearNode
              ELSE LET pending == clearNode.pendingStateUpdates[sequence]
                       told == [clearNode EXCEPT !.callbacks = @ \cup {"stateConfirmed"}]
                   IN  IF pending = 0 THEN told
                       ELSE [told EXCEPT !.promises[pending] = "resolved",
                                         !.pendingStateUpdates[sequence] = 0]
        /\ UNCHANGED <<channelVars, matcherVars, yellow, fundVars>>

\* handleMessage: state_rejected (and auth_error, error): the error callback.
ClearNodeOnStateRejected ==
    /\ clearNode.socket = "open"
    /\ clearNode' = [clearNode EXCEPT !.callbacks = @ \cup {"error"}]
    /\ UNCHANGED <<channelVars, matcherVars, yellow, fundVars>>

\* The 10-second timer of call `call` fires.
PushTimeout(call) ==
    /\ clearNode.timers[call] # 0
    /\ LET sequence == clearNode.timers[call]
           pending == clearNode.pendingStateUpdates[sequence]
           fired == [clearNode EXCEPT !.timers[call] = 0]
       IN  clearNode' =
              IF pending = 0 THEN fired
              ELSE [fired EXCEPT !.promises[pending] = "rejected",
                                 !.pendingStateUpdates[sequence] = 0]
    /\ UNCHANGED <<channelVars, matcherVars, yellow, fundVars>>

ClearNodePushTimeout == \E call \in PushCalls : PushTimeout(call)

\* new YellowNetworkClient(config), with the events it has emitted.
NewYellowNetworkClient ==
    [socket            |-> "none",
     authenticated     |-> FALSE,
     reconnectAttempts |-> 0,
     reconnectTimer    |-> FALSE,
     emitted           |-> {},
     lastClose         |-> NoClose]

\* Faulty variant: the attempts are counted but never compared with the cap.
yellowAttemptReconnectUncapped(client) ==
    [client EXCEPT !.reconnectAttempts = @ + 1,
                   !.reconnectTimer = TRUE,
                   !.lastClose.scheduled = TRUE]

\* YellowNetworkClient.attemptReconnect, run by the close handler.
yellowAttemptReconnect(client) ==
    IF client.reconnectAttempts >= MaxReconnectAttempts
    THEN [client EXCEPT !.emitted = @ \cup {"max_reconnect_attempts"},
                        !.lastClose.exhausted = TRUE,
                        !.lastClose.notified = @ \cup {"max_reconnect_attempts"}]
    ELSE [client EXCEPT !.reconnectAttempts = @ + 1,
                        !.reconnectTimer = TRUE,
                        !.lastClose.scheduled = TRUE]

YellowConnect ==
    /\ yellow.socket = "none" /\ ~yellow.reconnectTimer
    /\ yellow' = [yellow EXCEPT !.socket = "connecting"]
    /\ UNCHANGED <<channelVars, matcherVars, clearNode, fundVars>>

YellowOnOpen ==
    /\ yellow.socket = "connecting"
    /\ yellow' = [yellow EXCEPT !.socket = "open",
                                !.reconnectAttempts = 0,
                                !.emitted = @ \cup {"connected"}]
    /\ UNCHANGED <<channelVars, matcherVars, clearNode, fundVars>>

YellowOnClose ==
    /\ yellow.socket \in {"connecting", "open", "closing"}
    /\ yellow' = yellowAttemptReconnect(
            [yellow EXCEPT !.socket = "none",
                           !.authenticated = FALSE,
                           !.emitted = @ \cup {"disconnected"},
                           !.lastClose = [NoClose EXCEPT !.notified = {"disconnected"}]])
    /\ UNCHANGED <<channelVars, matcherVars, clearNode, fundVars>>

YellowReconnect ==
    /\ yellow.reconnectTimer
    /\ yellow' = [yellow EXCEPT !.reconnectTimer = FALSE, !.socket = "connecting"]
    /\ UNCHANGED <<channelVars, matcherVars, clearNode, fundVars>>

YellowDisconnect ==
    /\ yellow.socket \in {"connecting", "open"}
    /\ yellow' = [yellow EXCEPT !.socket = "closing", !.authenticated = FALSE]
    /\ UNCHANGED <<channelVars, matcherVars, clearNode, fundVars>>

\* --------------------------------- YellowNetworkClient: its messages
\* The WebSockets connect() creates in a run, numbered in the order created,
\* and the calls of authenticate and of the request methods, numbered in the
\* order made.
SocketIds == 1..MaxSockets
RequestCalls == 1..MaxRequests

\* The message types the request methods send, and authenticate's.
RequestTypes == {"get_unified_balance", "allocate_to_channel", "withdraw_from_channel"}
AuthRequest == "auth_request"

\* The event a method waits for with this.once.
ResponseEvent(type) ==
    CASE type = "auth_request"          -> "auth_response"
      [] type = "get_unified_balance"   -> "unified_balance_response"
      [] type = "allocate_to_channel"   -> "allocation_response"
      [] type = "withdraw_from_channel" -> "withdrawal_response"

\* new YellowNetworkClient(config).  sockets is the readyState of every
\* WebSocket created ("unused": not created yet; "closing": close() called,
\* the close event not delivered); ws the socket the field ws points to (0:
\* null); listeners the once-listeners in the order registered, each with
\* the call that registered it; requested the message type of each call
\* ("none": not made); transmitted what ws.send was given, with
\* the socket and the authenticated flag at that moment; answered the
\* calls whose message the server has answered; settledBy, for a promise a
\* response settled, the call that response answered; queued the calls
\* whose message send() has put on the queue; hung whether
\* flushMessageQueue is in a loop that never ends.
NewYellowClient ==
    [sockets           |-> [s \in SocketIds |-> "unused"],
     ws                |-> 0,
     authenticated     |-> FALSE,
     reconnectAttempts |-> 0,
     reconnectTimers   |-> 0,
     messageQueue      |-> <<>>,
     listeners         |-> <<>>,
     requested         |-> [c \in RequestCalls |-> "none"],
     promises          |-> [c \in RequestCalls |-> "none"],
     timers            |-> [c \in RequestCalls |-> FALSE],
     settledBy         |-> [c \in RequestCalls |-> 0],
     transmitted       |-> <<>>,
     answered          |-> {},
     queued            |-> {},
     hung              |-> FALSE]

\* this.ws is set and its readyState is OPEN.
wsOpen(client) == client.ws # 0 /\ client.sockets[client.ws] = "open"

Enqueue(client, message) ==
    [client EXCEPT !.messageQueue = Append(@, message),
                   !.queued = @ \cup {message.call}]

\* YellowNetworkClient.send
yellowSend(client, message) ==
    IF ~wsOpen(client) THEN Enqueue(client, message)
    ELSE IF ~client.authenticated /\ message.type # AuthRequest
    THEN Enqueue(client, message)
    ELSE [client EXCEPT !.transmitted =
            Append(@, [message |-> message, socket |-> client.ws,
                       authenticated |-> client.authenticated])]

\* flushMessageQueue: while the queue is not empty, shift a message and
\* send() it.  Nothing send() looks at changes during the loop, so a message
\* it puts back on the queue is put back every time it comes up: the queue
\* never empties and the loop never ends.
RECURSIVE flushMessageQueue(_)
flushMessageQueue(client) ==
    IF client.messageQueue = <<>> THEN client
    ELSE LET message == Head(client.messageQueue)
             sent == yellowSend([client EXCEPT !.messageQueue = Tail(@)], message)
         IN  IF Len(sent.messageQueue) >= Len(client.messageQueue)
             THEN [sent EXCEPT !.hung = TRUE]
             ELSE flushMessageQueue(sent)

\* resolve / reject of a call's promise: without effect once it is settled.
SettlePromise(client, call, outcome, answers) ==
    IF client.promises[call] # "pending" THEN client
    ELSE [client EXCEPT !.promises[call] = outcome, !.settledBy[call] = answers]

\* The once-listener a call registered, run with a response that answers
\* the message of call `answers`.
RunListener(client, listener, success, answers) ==
    LET cleared == [client EXCEPT !.timers[listener.call] = FALSE] IN
    IF listener.event # "auth_response"
    THEN SettlePromise(cleared, listener.call,
                       IF success THEN "resolved" ELSE "rejected", answers)
    ELSE IF ~success
    THEN SettlePromise(cleared, listener.call, "rejected", answers)
    ELSE LET flushed == flushMessageQueue([cleared EXCEPT !.authenticated = TRUE])
         IN  IF flushed.hung THEN flushed
             ELSE SettlePromise(flushed, listener.call, "resolved", answers)

RECURSIVE RunListeners(_, _, _, _)
RunListeners(client, toRun, success, answers) ==
    IF toRun = <<>> \/ client.hung THEN client
    ELSE RunListeners(RunListener(client, Head(toRun), success, answers),
                      Tail(toRun), success, answers)

\* handleMessage: emit(message.type, message.data) runs every listener
\* registered for the event, in the order registered; a once-listener is
\* removed as it is run.
yellowHandleMessage(client, event, success, answers) ==
    LET Listens(l) == l.event = event
        Others(l) == l.event # event
    IN  RunListeners([client EXCEPT !.listeners = SelectSeq(@, Others)],
                     SelectSeq(client.listeners, Listens), success, answers)

\* The first call not made yet.
NextRequestCall(client) ==
    CHOOSE c \in RequestCalls :
        /\ client.promises[c] = "none"
        /\ \A earlier \in 1..(c - 1) : client.promises[earlier] # "none"

\* authenticate / getUnifiedBalance / allocateToChannel /
\* withdrawFromChannel: the timeout, the once-listener, then send().
yellowRequest(client, type) ==
    LET call == NextRequestCall(client) IN
    yellowSend([client EXCEPT
                    !.requested[call] = type,
                    !.promises[call] = "pending",
                    !.timers[call] = TRUE,
                    !.listeners = Append(@, [event |-> ResponseEvent(type),
                                             call |-> call])],
               [type |-> type, call |-> call])

\* connect(): a new WebSocket, assigned to ws whatever ws held.
yellowClientConnect(client) ==
    LET socket == CHOOSE s \in SocketIds :
                    /\ client.sockets[s] = "unused"
                    /\ \A earlier \in 1..(s - 1) : client.sockets[earlier] # "unused"
    IN  [client EXCEPT !.sockets[socket] = "connecting", !.ws = socket]

YellowClientStep(client) ==
    /\ yellowClient' = client
    /\ UNCHANGED <<channelVars, matcherVars, clearNode, yellow, balanceManager>>

\* connect() called by the client's user.
YellowClientConnect ==
    /\ ~yellowClient.hung
    /\ \E s \in SocketIds : yellowClient.sockets[s] = "unused"
    /\ YellowClientStep(yellowClientConnect(yellowClient))

\* The setTimeout of attemptReconnect fires: connect().
YellowClientReconnect ==
    /\ ~yellowClient.hung
    /\ yellowClient.reconnectTimers > 0
    /\ \E s \in SocketIds : yellowClient.sockets[s] = "unused"
    /\ YellowClientStep(yellowClientConnect(
            [yellowClient EXCEPT !.reconnectTimers = @ - 1]))

\* ws.onopen of a socket.
YellowClientOnOpen ==
    \E s \in SocketIds :
        /\ ~yellowClient.hung
        /\ yellowClient.sockets[s] = "connecting"
        /\ YellowClientStep([yellowClient EXCEPT !.sockets[s] = "open",
                                                 !.reconnectAttempts = 0])

\* ws.onclose of a socket: authenticated is cleared and attemptReconnect
\* runs.
YellowClientOnClose ==
    \E s \in SocketIds :
        /\ ~yellowClient.hung
        /\ yellowClient.sockets[s] \in {"connecting", "open", "closing"}
        /\ YellowClientStep(
              LET closed == [yellowClient EXCEPT
                                !.sockets[s] = "closed",
                                !.authenticated = FALSE]
              IN  IF closed.reconnectAttempts >= MaxReconnectAttempts THEN closed
                  ELSE [closed EXCEPT !.reconnectAttempts = @ + 1,
                                      !.reconnectTimers = @ + 1])

\* disconnect()
YellowClientDisconnect ==
    /\ ~yellowClient.hung
    /\ yellowClient.ws # 0
    /\ YellowClientStep(
          [yellowClient EXCEPT
              !.sockets[yellowClient.ws] =
                    IF @ \in {"connecting", "open"} THEN "closing" ELSE @,
              !.ws = 0,
              !.authenticated = FALSE])

\* authenticate(address, signature)
YellowClientAuthenticate ==
    /\ ~yellowClient.hung
    /\ \E c \in RequestCalls : yellowClient.promises[c] = "none"
    /\ YellowClientStep(yellowRequest(yellowClient, AuthRequest))

\* getUnifiedBalance / allocateToChannel / withdrawFromChannel
YellowClientRequest ==
    \E type \in RequestTypes :
        /\ ~yellowClient.hung
        /\ \E c \in RequestCalls : yellowClient.promises[c] = "none"
        /\ YellowClientStep(yellowRequest(yellowClient, type))

\* ws.onmessage of an open socket: the server's response to a message it
\* was sent on that socket and has not answered yet.
YellowClientOnMessage ==
    \E i \in 1..MaxRequests, success \in BOOLEAN :
        /\ ~yellowClient.hung
        /\ i <= Len(yellowClient.transmitted)
        /\ yellowClient.sockets[yellowClient.transmitted[i].socket] = "open"
        /\ yellowClient.transmitted[i].message.call \notin yellowClient.answered
        /\ YellowClientStep(
              yellowHandleMessage(
                  [yellowClient EXCEPT
                      !.answered = @ \cup {yellowClient.transmitted[i].message.call}],
                  ResponseEvent(yellowClient.transmitted[i].message.type),
                  success,
                  yellowClient.transmitted[i].message.call))

\* The timeout of a call fires: its promise is rejected; the listener stays.
YellowClientTimeout ==
    \E call \in RequestCalls :
        /\ ~yellowClient.hung
        /\ yellowClient.timers[call]
        /\ YellowClientStep(
              SettlePromise([yellowClient EXCEPT !.timers[call] = FALSE],
                            call, "rejected", 0))

\* ------------------------------------------------------ BalanceManager
\* A balance as BalanceState holds it, a decimal string, and the two
\* conversions the manager uses on it.  Amounts are whole units.
DecimalString(number) == [decimal |-> number]
parseFloat(text) == text.decimal
toString(number) == DecimalString(number)

\* The amounts {base, quote} handed to allocateToChannel and
\* withdrawFromChannel.
Amounts == [base : {DecimalString(n) : n \in 0..MaxAmount},
            quote : {DecimalString(n) : n \in 0..MaxAmount}]

\* The calls of allocateToChannel and withdrawFromChannel in a run.
TransferCalls == 1..MaxTransfers

NoTransfer ==
    [op |-> "none", status |-> "none", amount |-> [base |-> DecimalString(0),
                                                   quote |-> DecimalString(0)],
     ethAvailable |-> 0, usdcAvailable |-> 0]

\* The unified balance refreshUnifiedBalance has read from Yellow Network,
\* the channel balance still at the constructor's '0'.
SeedBalanceState ==
    [unified |-> [eth |-> DecimalString(MaxAmount), usdc |-> DecimalString(MaxAmount)],
     channel |-> [eth |-> DecimalString(0), usdc |-> DecimalString(0)]]

\* The BalanceManager initialized with a Yellow client: balances (the
\* unified and the channel tier) and, for each call, what this call has
\* read before its await and how it ended.
NewBalanceManager ==
    [balances |-> SeedBalanceState,
     calls    |-> [c \in TransferCalls |-> NoTransfer]]

\* allocateToChannel up to its await: the check of the unified balance,
\* with the values it parsed kept for after the await.
allocateStart(manager, call, amount) ==
    LET ethNeeded == parseFloat(amount.base)
        usdcNeeded == parseFloat(amount.quote)
        ethAvailable == parseFloat(manager.balances.unified.eth)
        usdcAvailable == parseFloat(manager.balances.unified.usdc)
        started == [op |-> "allocateToChannel", status |-> "awaiting",
                    amount |-> amount, ethAvailable |-> ethAvailable,
                    usdcAvailable |-> usdcAvailable]
    IN  IF ethNeeded > ethAvailable \/ usdcNeeded > usdcAvailable
        THEN [manager EXCEPT !.calls[call] = [started EXCEPT !.status = "thrown"]]
        ELSE [manager EXCEPT !.calls[call] = started]

\* allocateToChannel after its await resolved: the unified balance from the
\* values parsed before the await, the channel balance from the field as it
\* reads now.
allocateFinish(manager, call) ==
    LET started == manager.calls[call]
        ethNeeded == parseFloat(started.amount.base)
        usdcNeeded == parseFloat(started.amount.quote)
    IN  [manager EXCEPT
            !.calls[call].status = "resolved",
            !.balances.unified.eth = toString(started.ethAvailable - ethNeeded),
            !.balances.unified.usdc = toString(started.usdcAvailable - usdcNeeded),
            !.balances.channel.eth = toString(parseFloat(@) + ethNeeded),
            !.balances.channel.usdc = toString(parseFloat(@) + usdcNeeded)]

\* withdrawFromChannel up to its await: nothing is checked.
withdrawStart(manager, call, amount) ==
    [manager EXCEPT !.calls[call] =
        [op |-> "withdrawFromChannel", status |-> "awaiting", amount |-> amount,
         ethAvailable |-> 0, usdcAvailable |-> 0]]

\* withdrawFromChannel after its await resolved.
withdrawFinish(manager, call) ==
    LET ethAmount == parseFloat(manager.calls[call].amount.base)
        usdcAmount == parseFloat(manager.calls[call].amount.quote)
    IN  [manager EXCEPT
            !.calls[call].status = "resolved",
            !.balances.channel.eth = toString(parseFloat(@) - ethAmount),
            !.balances.channel.usdc = toString(parseFloat(@) - usdcAmount),
            !.balances.unified.eth = toString(parseFloat(@) + ethAmount),
            !.balances.unified.usdc = toString(parseFloat(@) + usdcAmount)]

\* The first call not made yet.
NextTransferCall(manager) ==
    CHOOSE c \in TransferCalls :
        /\ manager.calls[c].op = "none"
        /\ \A earlier \in 1..(c - 1) : manager.calls[earlier].op # "none"

BalanceManagerStep(manager) ==
    /\ balanceManager' = manager
    /\ UNCHANGED <<channelVars, matcherVars, clearNode, yellow, yellowClient>>

BalanceAllocateToChannel ==
    \E amount \in Amounts :
        /\ \E c \in TransferCalls : balanceManager.calls[c].op = "none"
        /\ BalanceManagerStep(
              allocateStart(balanceManager, NextTransferCall(balanceManager), amount))

BalanceWithdrawFromChannel ==
    \E amount \in Amounts :
        /\ \E c \in TransferCalls : balanceManager.calls[c].op = "none"
        /\ BalanceManagerStep(
              withdrawStart(balanceManager, NextTransferCall(balanceManager), amount))

\* The Yellow client's promise resolves: the call goes on after its await.
BalanceYellowResolves ==
    \E call \in TransferCalls :
        /\ balanceManager.calls[call].status = "awaiting"
        /\ BalanceManagerStep(
              IF balanceManager.calls[call].op = "allocateToChannel"
              THEN allocateFinish(balanceManager, call)
              ELSE withdrawFinish(balanceManager, call))

\* The Yellow client's promise is rejected (an error response, or its
\* timeout): the call throws at its await.
BalanceYellowRejects ==
    \E call \in TransferCalls :
        /\ balanceManager.calls[call].status = "awaiting"
        /\ BalanceManagerStep(
              [balanceManager EXCEPT !.calls[call].status = "rejected"])

\* ------------------------------------------------------- specifications
InitChannels ==
    /\ channels = [c \in ChannelIds |-> Undefined]
    /\ auditLog = [c \in ChannelIds |-> Undefined]
    /\ lastCall = Call("new", "", Undefined, Undefined, "")
    /\ highestAccepted = [c \in ChannelIds |-> 0]
    /\ nonceCalls = [c \in ChannelIds |-> 0]
    /\ logs = [k \in LogKeys |-> <<>>]
    /\ page = [address |-> Undefined, channel |-> NoChannel,
               listenerChannel |-> NoChannel, matchingClient |-> "none",
               closing |-> NoChannel, opened |-> 0]
    /\ clearNode = NewClearNodeClient
    /\ yellow = NewYellowNetworkClient
    /\ yellowClient = NewYellowClient
    /\ balanceManager = NewBalanceManager

\* No matcher call made, the market created empty.
Init ==
    /\ InitChannels
    /\ market = createInitialState(1)
    /\ lastOrder = [op |-> "new", success |-> FALSE, error |-> NoError,
                    order |-> Undefined, fills |-> <<>>]
    /\ idsGenerated = 0

\* The market seeded with balances for u1 and u2, as the prediction page
\* seeds its demo users: u1 with either seed, u2 with cash only.
InitMatcher ==
    /\ InitChannels
    /\ \E b1 \in SeedBalances :
          market = [createInitialState(1) EXCEPT
                        !.balances = [u \in Users |->
                            IF u = "u1" THEN b1 ELSE IF u = "u2" THEN CashOnly
                            ELSE Undefined]]
    /\ lastOrder = [op |-> "new", success |-> FALSE, error |-> NoError,
                    order |-> Undefined, fills |-> <<>>]
    /\ idsGenerated = 0

\* The StateChannelManager under any sequence of calls of its state-changing
\* methods.
Next ==
    \/ InitializeChannel
    \/ UpdateChannelState
    \/ GetNextNonce
    \/ InitiateCooperativeClose
    \/ InitiateForceExit
    \/ FinalizeClose
    \/ ClearChannel

Spec == Init /\ [][Next]_vars

\* The StateChannelManager handed updates of any channel.
NextRouting ==
    \/ InitializeChannel
    \/ UpdateChannelStateOfAny
    \/ ClearChannel

SpecRouting == Init /\ [][NextRouting]_vars

\* The StateChannelManager recording intents and fills between checkpoints
\* and assembling force-exit proofs.
NextProof ==
    \/ InitializeChannel
    \/ UpdateChannelState
    \/ RecordOrderIntent
    \/ RecordFill
    \/ InitiateForceExit
    \/ GenerateForceExitProof
    \/ ExportProof

SpecProof == Init /\ [][NextProof]_vars

\* The manager's proofs exported as text and imported again.
NextImport ==
    \/ NextProof
    \/ ImportProof

SpecImport == Init /\ [][NextImport]_vars

\* The trading page: its handlers and the events of its matching client.
NextPage ==
    \/ ConnectWallet
    \/ MatchingClientOpen
    \/ DisconnectWallet
    \/ HandleOpenChannel
    \/ HandleSubmitOrder
    \/ OnFill
    \/ OnStateUpdate
    \/ HandleCooperativeClose
    \/ WithdrawalSettles
    \/ HandleForceExit

SpecPage == Init /\ [][NextPage]_vars

\* The trading page, its wallet connection failing half way included.
NextSubmit ==
    \/ NextPage
    \/ ConnectWalletFails

SpecSubmit == Init /\ [][NextSubmit]_vars

\* The matcher under any sequence of processOrder and cancelOrder calls on a
\* seeded market.
NextMatcher ==
    \/ ProcessOrder
    \/ CancelOrder

SpecMatcher == InitMatcher /\ [][NextMatcher]_vars

\* The matcher's book as the prediction page shows it between orders.
NextDisplay ==
    \/ ProcessOrder
    \/ GetOrderbookDisplay

SpecDisplay == InitMatcher /\ [][NextDisplay]_vars

\* A ClearNodeClient: its connection, the state updates pushed through it
\* and the messages and timers that settle them.
NextClearNode ==
    \/ ClearNodeConnect
    \/ ClearNodeOnOpen
    \/ ClearNodeOnClose
    \/ ClearNodeReconnect
    \/ ClearNodeDisconnect
    \/ ClearNodeOnAuthSuccess
    \/ PushStateUpdate
    \/ ClearNodeOnStateConfirmed
    \/ ClearNodeOnStateRejected
    \/ ClearNodePushTimeout

SpecClearNode == Init /\ [][NextClearNode]_vars

\* The same, every timer set by pushStateUpdate firing in the end.
SpecClearNodeTimers ==
    SpecClearNode /\ \A call \in PushCalls : WF_vars(PushTimeout(call))

\* The connections of both network clients: opening, closing, reconnecting.
NextReconnect ==
    \/ ClearNodeConnect
    \/ ClearNodeOnOpen
    \/ ClearNodeOnClose
    \/ ClearNodeReconnect
    \/ ClearNodeDisconnect
    \/ YellowConnect
    \/ YellowOnOpen
    \/ YellowOnClose
    \/ YellowReconnect
    \/ YellowDisconnect

SpecReconnect == Init /\ [][NextReconnect]_vars

\* A YellowNetworkClient: its sockets, its requests and the server's
\* responses.
NextYellowClient ==
    \/ YellowClientConnect
    \/ YellowClientReconnect
    \/ YellowClientOnOpen
    \/ YellowClientOnClose
    \/ YellowClientDisconnect
    \/ YellowClientAuthenticate
    \/ YellowClientRequest
    \/ YellowClientOnMessage
    \/ YellowClientTimeout

SpecYellowClient == Init /\ [][NextYellowClient]_vars

\* The BalanceManager under allocateToChannel and withdrawFromChannel calls
\* that the Yellow client lets through or not.
NextBalanceManager ==
    \/ BalanceAllocateToChannel
    \/ BalanceWithdrawFromChannel
    \/ BalanceYellowResolves
    \/ BalanceYellowRejects

SpecBalanceManager == Init /\ [][NextBalanceManager]_vars

\* signStateUpdate followed by verifyStateUpdateSignature.
NextSignatures == SignThenVerify

SpecSignatures == Init /\ [][NextSignatures]_vars

\* The AuditLog under any sequence of recordings.
NextAuditLog ==
    \/ AuditLogRecordOrder
    \/ AuditLogRecordFill
    \/ AuditLogRecordStateUpdate

SpecAuditLog == Init /\ [][NextAuditLog]_vars

\* ------------------------------------------------------------ properties
\* The status changes the lifecycle permits.
AllowedTransitions ==
    {<<"opening", "active">>, <<"active", "closing">>, <<"closing", "closed">>,
     <<"active", "disputed">>, <<"disputed", "closed">>}

\* Whether `x` is an element of the sequence `xs`.
InSeq(x, xs) == \E i \in 1..Len(xs) : xs[i] = x

\* C1: for every channel and every state update, updateChannelState returns
\* false whenever the update's sequence is not above the channel's, whether
\* its signatures are valid or not.
StaleSequenceRejected ==
    \A c \in ChannelIds : \A u \in StateUpdates :
        (channels[c] # Undefined /\ u.sequence <= channels[c].sequence)
            => updateChannelState(channels, auditLog, c, u).result = FALSE

\* A dual-signed update was rejected as stale on a channel that has accepted
\* an update before.
StaleSequenceRejectedWitness ==
    /\ lastCall.op = "updateChannelState"
    /\ lastCall.result = FALSE
    /\ lastCall.console = "Invalid sequence number"
    /\ lastCall.arg.dualSigned
    /\ channels[lastCall.id].sequence > 0

\* C2: for one channel id, under any sequence of manager calls, every accepted
\* update carries a sequence number above every one accepted earlier for
\* that id.
AcceptedSequencesIncrease ==
    [][(lastCall'.op = "updateChannelState" /\ lastCall'.result = TRUE)
            => channels'[lastCall'.id].sequence > highestAccepted[lastCall'.id]]_vars

\* C3: updateChannelState returns true only for an update whose userSignature
\* verifies against the channel's userAddress and whose operatorSignature
\* verifies against its operatorAddress, each made by the holder of that
\* address over this very update; and the state a channel holds is such an
\* update.
AcceptedOnlyDualSigned ==
    /\ \A c \in ChannelIds : \A u \in StateUpdates :
        (channels[c] # Undefined
            /\ updateChannelState(channels, auditLog, c, u).result = TRUE)
            => /\ VerifyStateUpdateSignature(u, u.userSignature, channels[c].userAddress)
               /\ VerifyStateUpdateSignature(u, u.operatorSignature,
                                             channels[c].operatorAddress)
               /\ DualSigned(u, channels[c])
    /\ \A c \in ChannelIds :
        (channels[c] # Undefined /\ channels[c].latestState # Undefined)
            => DualSigned(channels[c].latestState, channels[c])
    /\ (lastCall.op = "updateChannelState" /\ lastCall.result = TRUE)
            => lastCall.arg.dualSigned

\* An update was accepted on a channel whose userAddress is written in lower
\* case, the recovered address being in checksum case.
AcceptedOnlyDualSignedWitness ==
    /\ lastCall.op = "updateChannelState"
    /\ lastCall.result = TRUE
    /\ channels[lastCall.id].userAddress.form = "lower"
    /\ channels[lastCall.id].latestState # Undefined

\* C4: a rejected updateChannelState leaves both maps exactly as they were; an
\* accepted one replaces the channel's sequence, balances and latestState by
\* the update's, appends the update to the recorded states and changes
\* nothing else.
UpdateAllOrNothing ==
    \A c \in ChannelIds : \A u \in StateUpdates :
        LET out == updateChannelState(channels, auditLog, c, u) IN
        IF out.result = TRUE
        THEN /\ out.channels[c].sequence = u.sequence
             /\ out.channels[c].balances = u.balances
             /\ out.channels[c].latestState = u
             /\ out.channels[c].status = channels[c].status
             /\ out.channels[c].nextNonce = channels[c].nextNonce
             /\ out.channels[c].id = channels[c].id
             /\ out.channels[c].userAddress = channels[c].userAddress
             /\ out.channels[c].operatorAddress = channels[c].operatorAddress
             /\ out.auditLog[c].states = Append(auditLog[c].states, u)
             /\ out.auditLog[c].orders = auditLog[c].orders
             /\ out.auditLog[c].fills = auditLog[c].fills
             /\ \A d \in ChannelIds \ {c} :
                    out.channels[d] = channels[d] /\ out.auditLog[d] = auditLog[d]
        ELSE /\ out.channels = channels
             /\ out.auditLog = auditLog

\* An update above the channel's sequence number was rejected for its
\* operator signature on a channel that holds an accepted state and has
\* issued a nonce.
UpdateAllOrNothingWitness ==
    /\ lastCall.op = "updateChannelState"
    /\ lastCall.result = FALSE
    /\ lastCall.console = "Invalid operator signature"
    /\ lastCall.arg.sequence > channels[lastCall.id].sequence
    /\ channels[lastCall.id].latestState # Undefined
    /\ channels[lastCall.id].nextNonce > 0

\* C5: once a dual-signed update has been presented that carries the sequence
\* number of the channel's latest state but other content, every further
\* update presented to that channel is rejected.
ForkHaltsAcceptance ==
    (lastCall.op = "updateChannelState" /\ lastCall.arg.conflicts)
        => \A u \in StateUpdates :
              updateChannelState(channels, auditLog, lastCall.id, u).result = FALSE

\* C6: under initiateCooperativeClose, initiateForceExit and finalizeClose a
\* channel's status only changes along the permitted transitions, and a
\* closed channel keeps its status.
StatusFollowsLifecycle ==
    [][\A c \in ChannelIds :
          (/\ lastCall'.op \in {"initiateCooperativeClose", "initiateForceExit",
                                "finalizeClose"}
           /\ channels[c] # Undefined
           /\ channels'[c] # Undefined
           /\ channels'[c].status # channels[c].status)
              => <<channels[c].status, channels'[c].status>> \in AllowedTransitions]_vars

\* C7: for an unknown channel id, and for a channel with no accepted update
\* recorded, generateForceExitProof and exportProof return null, whatever
\* intents and fills are recorded and whatever the status.
NoProofWithoutAcceptedState ==
    /\ \A c \in ChannelIds : \A t \in Times :
        (channels[c] = Undefined \/ auditLog[c].states = <<>>)
            => /\ generateForceExitProof(channels, auditLog, c, t).result = Null
               /\ exportProof(channels, auditLog, c, t).result = Null
    /\ (/\ lastCall.op \in {"generateForceExitProof", "exportProof"}
        /\ (channels[lastCall.id] = Undefined \/ auditLog[lastCall.id].states = <<>>))
            => lastCall.result = Null

\* Null was returned for a disputed channel with an intent and a fill
\* recorded and no accepted update.
NoProofWithoutAcceptedStateWitness ==
    /\ lastCall.op = "generateForceExitProof"
    /\ lastCall.result = Null
    /\ channels[lastCall.id] # Undefined
    /\ channels[lastCall.id].status = "disputed"
    /\ auditLog[lastCall.id].states = <<>>
    /\ auditLog[lastCall.id].orders # <<>>
    /\ auditLog[lastCall.id].fills # <<>>

\* C8: for a channel with an accepted update, the proof's latestState is the
\* update accepted last, its orderIntents are exactly the recorded intents
\* with expiresAt > latestState.timestamp and its fills exactly the recorded
\* fills with timestamp > latestState.timestamp, each in recording order.
ProofHoldsActivitySinceLatestState ==
    \A c \in ChannelIds : \A t \in Times :
        (channels[c] # Undefined /\ auditLog[c].states # <<>>)
            => LET proof == generateForceExitProof(channels, auditLog, c, t).result
                   last == auditLog[c].states[Len(auditLog[c].states)]
               IN  /\ proof # Null
                   /\ proof.channelId = c
                   /\ proof.latestState = last
                   /\ proof.orderIntents =
                        SelectSeq(auditLog[c].orders,
                                  LAMBDA o : o.expiresAt > last.timestamp)
                   /\ proof.fills =
                        SelectSeq(auditLog[c].fills,
                                  LAMBDA f : f.timestamp > last.timestamp)
                   /\ proof.generatedAt = t

\* A proof was idsGenerated that keeps one recorded intent and leaves out
\* another, which expired by the latest state's timestamp.
ProofHoldsActivitySinceLatestStateWitness ==
    /\ lastCall.op = "generateForceExitProof"
    /\ lastCall.result # Null
    /\ Len(lastCall.result.orderIntents) = 1
    /\ Len(auditLog[lastCall.id].orders) = 2
    /\ auditLog[lastCall.id].orders[1].expiresAt = lastCall.result.latestState.timestamp

\* C9: in the trading page, every intent submitted on a channel and every
\* fill received while the page holds a channel is in the log of that channel
\* that generateForceExitProof reads.
PageActivityInProofLog ==
    /\ \A c \in ChannelIds :
        channels[c] # Undefined
            => \A i \in 1..Len(logs[c]) :
                  logs[c][i].type = "order"
                      => InSeq(logs[c][i].data, auditLog[c].orders)
    /\ (/\ lastCall.op = "on fill"
        /\ page.channel # NoChannel
        /\ channels[page.channel] # Undefined)
            => InSeq(logs[lastCall.id][Len(logs[lastCall.id])].data,
                     auditLog[page.channel].fills)

\* C10: the k-th getNextNonce since a channel's initialization returns k-1;
\* updateChannelState leaves nextNonce alone and getNextNonce leaves
\* sequence alone.
NonceCountsCalls ==
    /\ \A c \in ChannelIds :
        channels[c] # Undefined => channels[c].nextNonce = nonceCalls[c]
    /\ (lastCall.op = "getNextNonce" /\ channels[lastCall.id] # Undefined)
            => lastCall.result = nonceCalls[lastCall.id] - 1
    /\ \A c \in ChannelIds :
        channels[c] # Undefined
            => /\ getNextNonce(channels, auditLog, c).result = channels[c].nextNonce
               /\ getNextNonce(channels, auditLog, c).channels[c].sequence
                    = channels[c].sequence
               /\ \A u \in StateUpdates :
                    updateChannelState(channels, auditLog, c, u).channels[c].nextNonce
                        = channels[c].nextNonce

\* The second getNextNonce on a channel returned 1, the channel having
\* accepted an update.
NonceCountsCallsWitness ==
    /\ lastCall.op = "getNextNonce"
    /\ channels[lastCall.id] # Undefined
    /\ lastCall.result = 1
    /\ channels[lastCall.id].sequence > 0

\* C11: an update signed by both parties whose sequence is above the
\* channel's is accepted whether or not it is the next consecutive number,
\* and the channel's sequence is then the update's.
GapInSequenceAccepted ==
    \A c \in ChannelIds : \A u \in StateUpdates :
        (/\ channels[c] # Undefined
         /\ u.sequence > channels[c].sequence
         /\ DualSigned(u, channels[c]))
            => LET out == updateChannelState(channels, auditLog, c, u)
               IN  /\ out.result = TRUE
                   /\ out.channels[c].sequence = u.sequence

\* The first update a channel accepted carried sequence 2: the channel went
\* from sequence 0 to 2.
GapInSequenceAcceptedWitness ==
    /\ lastCall.op = "updateChannelState"
    /\ lastCall.result = TRUE
    /\ lastCall.arg.sequence = 2
    /\ channels[lastCall.id].sequence = 2
    /\ Len(auditLog[lastCall.id].states) = 1

\* What user `u` holds of `asset` ("usdc", "yes", "no") in `balances`.
Held(balances, u, asset) ==
    IF balances[u] = Undefined THEN 0 ELSE balances[u][asset]

\* The total of `asset` over the participants in `us`.
RECURSIVE TotalOver(_, _, _)
TotalOver(balances, us, asset) ==
    IF us = {} THEN 0
    ELSE LET u == CHOOSE x \in us : TRUE
         IN  Held(balances, u, asset) + TotalOver(balances, us \ {u}, asset)

Total(balances, asset) == TotalOver(balances, Users, asset)

\* C12: a processOrder call leaves the total usdc, the total YES and the
\* total NO over all participants as they were, also when an order matches
\* the submitter's own resting order.
TotalsConserved ==
    [][lastOrder'.op = "processOrder"
          => \A asset \in {"usdc", "yes", "no"} :
                Total(market'.balances, asset) = Total(market.balances, asset)]_vars

\* C13: in every snapshot reached by processOrder and cancelOrder calls from
\* non-negative balances, every participant's usdc, YES and NO balances are
\* non-negative, the makers' as well as the takers'.
BalancesNonNegative ==
    \A u \in Users : \A asset \in {"usdc", "yes", "no"} :
        Held(market.balances, u, asset) >= 0

\* The price a request is charged at in the worst case: the limit price of a
\* LIMIT order, 1 USDC for a MARKET order.
WorstCasePrice(request) ==
    IF request.type = "LIMIT" THEN request.price ELSE PriceUnit

\* C14: processOrder accepts a BUY only if the requester's usdc covers
\* price x quantity, the price being the limit price of a LIMIT order and 1
\* for a MARKET order whatever price field it carries; it accepts a SELL only
\* if the requester holds the quantity of the outcome sold.
AcceptedOnlyIfCovered ==
    \A request \in OrderRequests : \A dateNow \in ClockReadings(market) :
        processOrder(market, request, idsGenerated + 1, dateNow).success
            => IF request.side = "BUY"
               THEN Held(market.balances, request.userId, "usdc")
                        >= WorstCasePrice(request) * request.quantity
               ELSE Held(market.balances, request.userId,
                         IF request.outcome = "YES" THEN "yes" ELSE "no")
                        >= request.quantity

\* The request is invalid on `state`: no balance record, a quantity that is
\* not positive, a LIMIT order without a price or with one outside (0,1), a
\* buy the usdc does not cover (at the limit price, or at 1 for a MARKET
\* order carrying no price), a sell of more tokens than held.
InvalidRequest(state, request) ==
    \/ state.balances[request.userId] = Undefined
    \/ request.quantity <= 0
    \/ /\ request.type = "LIMIT"
       /\ (request.price = NoPrice \/ request.price <= 0 \/ request.price >= PriceUnit)
    \/ /\ request.side = "BUY"
       /\ request.type = "LIMIT"
       /\ Held(state.balances, request.userId, "usdc") < request.price * request.quantity
    \/ /\ request.side = "BUY"
       /\ request.type = "MARKET"
       /\ request.price = NoPrice
       /\ Held(state.balances, request.userId, "usdc") < PriceUnit * request.quantity
    \/ /\ request.side = "SELL"
       /\ Held(state.balances, request.userId,
               IF request.outcome = "YES" THEN "yes" ELSE "no") < request.quantity

\* C15: a request that fails validation gets success = false with an error
\* and no fills, and the snapshot returned is the one passed in, which is
\* itself unchanged.
InvalidRequestChangesNothing ==
    \A request \in OrderRequests : \A dateNow \in ClockReadings(market) :
        LET result == processOrder(market, request, idsGenerated + 1, dateNow) IN
        /\ InvalidRequest(market, request) => ~result.success
        /\ ~result.success
              => /\ result.error # NoError
                 /\ result.fills = <<>>
                 /\ result.newState = market
                 /\ result.currentState = market

\* A buy was refused for lack of usdc on a market that holds a resting order
\* and a fill.
InvalidRequestChangesNothingWitness ==
    /\ lastOrder.op = "processOrder"
    /\ ~lastOrder.success
    /\ lastOrder.error = "Insufficient USDC"
    /\ market.fills # <<>>
    /\ \E l \in BookLists : market.orderbook[l] # <<>>

\* C16: processOrder leaves the snapshot passed in as it was: whatever the
\* request, the snapshot reads after the call as it read before it (its book
\* lists, its resting orders' remainingQuantity and status, its balances and
\* its fills).  cancelOrder assigns to nothing the snapshot holds.
InputSnapshotUntouched ==
    \A request \in OrderRequests : \A dateNow \in ClockReadings(market) :
        processOrder(market, request, idsGenerated + 1, dateNow).currentState = market

\* The side an order of this side trades against.
Opposite(side) == IF side = "BUY" THEN "SELL" ELSE "BUY"

\* The quantity the first n fills take from the order `id`.
RECURSIVE TakenFrom(_, _, _)
TakenFrom(fills, n, id) ==
    IF n = 0 THEN 0
    ELSE TakenFrom(fills, n - 1, id)
            + (IF fills[n].makerOrderId = id THEN fills[n].quantity ELSE 0)

\* Resting order a has priority over resting order b for a taker of this
\* side: a strictly better price (lower ask for a buy, higher bid for a
\* sell), or the same price and an earlier timestamp.
HasPriority(a, b, takerSide) ==
    \/ IF takerSide = "BUY" THEN a.price < b.price ELSE a.price > b.price
    \/ a.price = b.price /\ a.timestamp < b.timestamp

\* C17: within one processOrder call every fill goes to an order resting on
\* the opposite side, and when it does, every order resting there with
\* priority over it (better price, or same price and earlier timestamp) has
\* already been filled completely by the earlier fills of the call.
PriceTimePriority ==
    \A request \in OrderRequests : \A dateNow \in ClockReadings(market) :
        LET fills == processOrder(market, request, idsGenerated + 1, dateNow).fills
            resting == market.orderbook[ListOf(request.outcome, Opposite(request.side))]
        IN  \A k \in 1..Len(fills) :
                /\ \E i \in 1..Len(resting) : resting[i].id = fills[k].makerOrderId
                /\ \A i, j \in 1..Len(resting) :
                      /\ resting[i].id = fills[k].makerOrderId
                      /\ HasPriority(resting[j], resting[i], request.side)
                      => TakenFrom(fills, k - 1, resting[j].id)
                            = resting[j].remainingQuantity

\* A call filled two makers, the one submitted later first.
PriceTimePriorityWitness ==
    /\ lastOrder.op = "processOrder" /\ lastOrder.success
    /\ Len(lastOrder.fills) = 2
    /\ lastOrder.fills[1].makerOrderId > lastOrder.fills[2].makerOrderId

\* The quantity of the first n fills together.
RECURSIVE FilledQuantity(_, _)
FilledQuantity(fills, n) ==
    IF n = 0 THEN 0 ELSE FilledQuantity(fills, n - 1) + fills[n].quantity

\* C18: every fill of a processOrder call has the price of the resting order
\* it names as maker, the quantity min(what the taker still wants, what the
\* maker still has), and a maker price the taker's price accepts (at most
\* the taker's price for a buy, at least for a sell); so no fill of a limit
\* buy costs more than its limit and no fill of a limit sell pays less.
FillAtMakerPrice ==
    \A request \in OrderRequests : \A dateNow \in ClockReadings(market) :
        LET result == processOrder(market, request, idsGenerated + 1, dateNow)
            resting == market.orderbook[ListOf(request.outcome, Opposite(request.side))]
        IN  \A k \in 1..Len(result.fills) : \A i \in 1..Len(resting) :
                LET fill == result.fills[k]
                    maker == resting[i]
                IN  maker.id = fill.makerOrderId
                    => /\ fill.price = maker.price
                       /\ fill.quantity
                            = Min(request.quantity - FilledQuantity(result.fills, k - 1),
                                  maker.remainingQuantity
                                    - TakenFrom(result.fills, k - 1, maker.id))
                       /\ fill.quantity > 0
                       /\ IF request.side = "BUY"
                          THEN result.order.price >= maker.price
                          ELSE result.order.price <= maker.price
                       /\ request.type = "LIMIT"
                            => IF request.side = "BUY"
                               THEN fill.price <= request.price
                               ELSE fill.price >= request.price

\* A limit buy for more than the best ask offers was filled below its limit.
FillAtMakerPriceWitness ==
    /\ lastOrder.op = "processOrder" /\ lastOrder.success
    /\ lastOrder.order.type = "LIMIT" /\ lastOrder.order.side = "BUY"
    /\ lastOrder.fills # <<>>
    /\ lastOrder.fills[1].price < lastOrder.order.price
    /\ lastOrder.fills[1].quantity < lastOrder.order.quantity

\* The positions of the order `id` on a list.
PositionsOf(orders, id) == {i \in 1..Len(orders) : orders[i].id = id}

\* The maker's price is one a taker with this side and price accepts.
Acceptable(takerSide, takerPrice, maker) ==
    IF takerSide = "BUY" THEN takerPrice >= maker.price ELSE takerPrice <= maker.price

\* C19: an accepted LIMIT request that its fills leave with a remainder rests
\* once on the list of its outcome and side, and on no other list, with its
\* limit price and that remainder; and when no order resting on the opposite
\* list has an acceptable price the call produces no fill, leaves the
\* balances as they were, and the order rests with the requested quantity.
RemainderRests ==
    \A request \in OrderRequests : \A dateNow \in ClockReadings(market) :
        LET id == idsGenerated + 1
            result == processOrder(market, request, id, dateNow)
            remainder == request.quantity
                            - FilledQuantity(result.fills, Len(result.fills))
            own == ListOf(request.outcome, request.side)
            resting == market.orderbook[ListOf(request.outcome, Opposite(request.side))]
            book == result.newState.orderbook
        IN  result.success /\ request.type = "LIMIT"
            => /\ remainder > 0
                    => /\ \E i \in 1..Len(book[own]) :
                              /\ PositionsOf(book[own], id) = {i}
                              /\ book[own][i].price = request.price
                              /\ book[own][i].remainingQuantity = remainder
                              /\ book[own][i].userId = request.userId
                       /\ \A l \in BookLists \ {own} : PositionsOf(book[l], id) = {}
               /\ (\A i \in 1..Len(resting) :
                        ~Acceptable(request.side, request.price, resting[i]))
                    => /\ result.fills = <<>>
                       /\ result.newState.balances = market.balances
                       /\ remainder = request.quantity

\* A limit order was filled in part and its remainder rests on the book.
RemainderRestsWitness ==
    /\ lastOrder.op = "processOrder" /\ lastOrder.success
    /\ lastOrder.order.type = "LIMIT"
    /\ lastOrder.fills # <<>>
    /\ lastOrder.order.remainingQuantity > 0
    /\ \E l \in BookLists : PositionsOf(market.orderbook[l], lastOrder.order.id) # {}

\* C20: in every snapshot the book holds only LIMIT orders, each on the list
\* of its own outcome and side, and on each list no order stands before one
\* of a better price (higher bid, lower ask) nor, among equal prices, before
\* one of an earlier timestamp.
BookWellFormed ==
    \A l \in BookLists :
        LET orders == market.orderbook[l] IN
        /\ \A i \in 1..Len(orders) :
              /\ orders[i].type = "LIMIT"
              /\ ListOf(orders[i].outcome, orders[i].side) = l
        /\ \A i, j \in 1..Len(orders) :
              i < j => /\ IF l \in {"yesBids", "noBids"}
                          THEN orders[i].price >= orders[j].price
                          ELSE orders[i].price <= orders[j].price
                       /\ orders[i].price = orders[j].price
                            => orders[i].timestamp <= orders[j].timestamp

\* A market order's unfilled remainder was dropped while a list holds two
\* orders, the one submitted later standing first.
BookWellFormedWitness ==
    /\ lastOrder.op = "processOrder" /\ lastOrder.success
    /\ lastOrder.order.type = "MARKET"
    /\ lastOrder.order.remainingQuantity > 0
    /\ \E l \in BookLists :
          /\ Len(market.orderbook[l]) = 2
          /\ market.orderbook[l][1].id > market.orderbook[l][2].id

\* The orders of a book with this id, on whatever list.
OrdersWithId(orderbook, id) ==
    {orderbook[l][i] : <<l, i>> \in {<<l, i>> \in BookLists \X (1..MaxIds) :
                                        /\ i <= Len(orderbook[l])
                                        /\ orderbook[l][i].id = id}}

\* C21: every order resting in the snapshot held has
\* 0 < remainingQuantity <= quantity; and for every request, a resting order
\* the call's fills take completely is on no list of the returned snapshot
\* and reads FILLED with remainingQuantity 0, while one they take in part
\* stays on the returned book with its remainingQuantity lowered by exactly
\* the quantity filled, and one they do not touch stays as it was.  (A call
\* without fills takes from no resting order.)
RestingOrdersKeepRemainder ==
    /\ \A l \in BookLists : \A i \in 1..Len(market.orderbook[l]) :
          /\ 0 < market.orderbook[l][i].remainingQuantity
          /\ market.orderbook[l][i].remainingQuantity <= market.orderbook[l][i].quantity
    /\ \A request \in OrderRequests : \A dateNow \in ClockReadings(market) :
          \A result \in {processOrder(market, request, idsGenerated + 1, dateNow)} :
          result.fills # <<>> =>
          \A l \in BookLists : \A i \in 1..Len(market.orderbook[l]) :
          \A taken \in {TakenFrom(result.fills, Len(result.fills),
                                  market.orderbook[l][i].id)} :
              LET maker == market.orderbook[l][i]
                  book == result.newState.orderbook
              IN  /\ taken <= maker.remainingQuantity
                  /\ taken = maker.remainingQuantity
                        => /\ OrdersWithId(book, maker.id) = {}
                           /\ result.currentState.orderbook[l][i].status = "FILLED"
                           /\ result.currentState.orderbook[l][i].remainingQuantity = 0
                  /\ taken < maker.remainingQuantity
                        => /\ PositionsOf(book[l], maker.id) # {}
                           /\ \A o \in OrdersWithId(book, maker.id) :
                                 o = [maker EXCEPT !.remainingQuantity = @ - taken]

\* A call filled a resting order in part: it rests with less than its
\* quantity, still OPEN, after a call that produced a fill naming it.
RestingOrdersKeepRemainderWitness ==
    /\ lastOrder.op = "processOrder" /\ lastOrder.success
    /\ lastOrder.fills # <<>>
    /\ \E l \in BookLists : \E i \in 1..Len(market.orderbook[l]) :
          /\ market.orderbook[l][i].id = lastOrder.fills[Len(lastOrder.fills)].makerOrderId
          /\ market.orderbook[l][i].remainingQuantity < market.orderbook[l][i].quantity

\* C22: the order a successful processOrder returns has as remainingQuantity
\* the requested quantity less the quantities of the returned fills, and its
\* status is FILLED exactly when that is 0, PARTIAL exactly when it lies
\* strictly between 0 and the requested quantity, and OPEN exactly when the
\* call returned no fill.
ReturnedOrderStatus ==
    \A request \in OrderRequests : \A dateNow \in ClockReadings(market) :
        \A result \in {processOrder(market, request, idsGenerated + 1, dateNow)} :
            result.success
            => LET order == result.order
                   remainder == request.quantity
                                   - FilledQuantity(result.fills, Len(result.fills))
               IN  /\ order.remainingQuantity = remainder
                   /\ order.quantity = request.quantity
                   /\ order.status \in {"FILLED", "PARTIAL", "OPEN"}
                   /\ order.status = "FILLED" <=> remainder = 0
                   /\ order.status = "PARTIAL"
                        <=> (0 < remainder /\ remainder < request.quantity)
                   /\ order.status = "OPEN" <=> result.fills = <<>>

\* A market order was filled in part and handed back PARTIAL.
ReturnedOrderStatusWitness ==
    /\ lastOrder.op = "processOrder" /\ lastOrder.success
    /\ lastOrder.order.type = "MARKET"
    /\ lastOrder.order.status = "PARTIAL"
    /\ Len(lastOrder.fills) = 1

\* The order ids a cancellation may name: those handed out, one never
\* handed out on either side.
CancelIds == 0..(MaxIds + 1)

\* C23: cancelOrder(state, orderId, userId) on a snapshot where an order
\* with that id rests and belongs to userId returns the snapshot without
\* that order, every list otherwise as it was and balances, fills and last
\* prices unchanged; where no order has the id, or its owner differs, it
\* returns the snapshot itself; and cancelling again in the snapshot
\* returned changes nothing.
CancelRemovesOwnOrder ==
    \A orderId \in CancelIds : \A userId \in Users :
    \A dateNow \in ClockReadings(market) :
        \A after \in {cancelOrder(market, orderId, userId, dateNow)} :
            /\ IF \E o \in OrdersWithId(market.orderbook, orderId) : o.userId = userId
               THEN /\ \A l \in BookLists :
                          after.orderbook[l]
                            = SelectSeq(market.orderbook[l], LAMBDA o : o.id # orderId)
                    /\ OrdersWithId(after.orderbook, orderId) = {}
                    /\ after.orderbook # market.orderbook
                    /\ after.balances = market.balances
                    /\ after.fills = market.fills
                    /\ after.lastYesPrice = market.lastYesPrice
                    /\ after.lastNoPrice = market.lastNoPrice
               ELSE after = market
            /\ \A again \in ClockReadings(after) :
                  cancelOrder(after, orderId, userId, again) = after

\* An order was cancelled and another one still rests.
CancelRemovesOwnOrderWitness ==
    /\ lastOrder.op = "cancelOrder" /\ lastOrder.success
    /\ \E l \in BookLists : market.orderbook[l] # <<>>
    /\ market.fills # <<>>

\* C24: in the snapshot held the two last prices are both null or both set
\* and add up to 1 (PriceUnit ticks); and for every request, a call that
\* returns fills leaves as last price of the outcome traded the price of its
\* last fill, and a call that returns none leaves both last prices as they
\* were.
LastPricesComplementary ==
    /\ \/ market.lastYesPrice = NoPrice /\ market.lastNoPrice = NoPrice
       \/ /\ market.lastYesPrice # NoPrice /\ market.lastNoPrice # NoPrice
          /\ market.lastYesPrice + market.lastNoPrice = PriceUnit
    /\ \A request \in OrderRequests : \A dateNow \in ClockReadings(market) :
          \A result \in {processOrder(market, request, idsGenerated + 1, dateNow)} :
              IF result.fills # <<>>
              THEN (IF request.outcome = "YES" THEN result.newState.lastYesPrice
                                             ELSE result.newState.lastNoPrice)
                        = result.fills[Len(result.fills)].price
              ELSE /\ result.newState.lastYesPrice = market.lastYesPrice
                   /\ result.newState.lastNoPrice = market.lastNoPrice

\* A call produced two fills at different prices and the last prices are set.
LastPricesComplementaryWitness ==
    /\ lastOrder.op = "processOrder" /\ lastOrder.success
    /\ Len(lastOrder.fills) = 2
    /\ lastOrder.fills[1].price # lastOrder.fills[2].price
    /\ market.lastYesPrice = lastOrder.fills[2].price
    /\ market.lastNoPrice = PriceUnit - lastOrder.fills[2].price

\* The remaining quantities of the orders at this price, added up.
RECURSIVE RemainingAt(_, _)
RemainingAt(orders, price) ==
    IF orders = <<>> THEN 0
    ELSE RemainingAt(Tail(orders), price)
            + (IF Head(orders).price = price THEN Head(orders).remainingQuantity ELSE 0)

\* The levels are those of the orders: one level for each price an order
\* has, with the summed remaining quantity and the number of orders at that
\* price, in strictly improving-to-worsening order of price.
LevelsOf(levels, orders, descending) ==
    /\ {levels[i].price : i \in 1..Len(levels)}
            = {orders[i].price : i \in 1..Len(orders)}
    /\ \A i \in 1..Len(levels) :
          /\ levels[i].quantity = RemainingAt(orders, levels[i].price)
          /\ levels[i].orderCount
                = Cardinality({j \in 1..Len(orders) : orders[j].price = levels[i].price})
    /\ \A i, j \in 1..Len(levels) :
          i < j => IF descending THEN levels[i].price > levels[j].price
                                 ELSE levels[i].price < levels[j].price

\* C30: the display of the snapshot held has, for bids and for asks, one
\* level per distinct price with the summed remaining quantity and the
\* order count, best price first; best bid and best ask are the highest bid
\* and the lowest ask or null when the side is empty; spread and mid-price
\* are set exactly when both sides have orders, the spread being best ask
\* less best bid.
DisplayAggregatesBook ==
    \A display \in {getOrderbookDisplay(market)} :
        LET bids == market.orderbook.yesBids
            asks == market.orderbook.yesAsks
        IN  /\ LevelsOf(display.yesBids, bids, TRUE)
            /\ LevelsOf(display.yesAsks, asks, FALSE)
            /\ IF bids = <<>> THEN display.bestYesBid = NoPrice
               ELSE /\ display.bestYesBid = display.yesBids[1].price
                    /\ \A i \in 1..Len(bids) : bids[i].price <= display.bestYesBid
            /\ IF asks = <<>> THEN display.bestYesAsk = NoPrice
               ELSE /\ display.bestYesAsk = display.yesAsks[1].price
                    /\ \A i \in 1..Len(asks) : asks[i].price >= display.bestYesAsk
            /\ IF bids = <<>> \/ asks = <<>>
               THEN display.spread = {} /\ display.midPrice = {}
               ELSE /\ display.spread = {display.bestYesAsk - display.bestYesBid}
                    /\ display.midPrice = {display.bestYesBid + display.bestYesAsk}

\* The page showed a book with two bids at one price and no ask: one level
\* of two orders, no spread.
DisplayAggregatesBookWitness ==
    /\ lastOrder.op = "getOrderbookDisplay"
    /\ \E i \in 1..Len(lastOrder.display.yesBids) :
          lastOrder.display.yesBids[i].orderCount = 2
    /\ lastOrder.display.yesAsks = <<>>
    /\ lastOrder.display.spread = {}
    /\ lastOrder.display = getOrderbookDisplay(market)

\* C25: every pushStateUpdate call whose promise is pending is settled in
\* the end (resolved or rejected), whatever else is pending, two calls for
\* one sequence number included.
PushedUpdatesSettle ==
    \A call \in PushCalls :
        (clearNode.promises[call] = "pending")
            ~> (clearNode.promises[call] \in {"resolved", "rejected"})

\* The close handler that found the attempts exhausted told the client's
\* user something it does not tell at an ordinary close, and scheduled no
\* reconnect.
Surfaced(client, ordinary) ==
    client.lastClose.exhausted
        => /\ client.lastClose.notified \ ordinary # {}
           /\ ~client.lastClose.scheduled
           /\ ~client.reconnectTimer

\* C26: for the ClearNodeClient and for the YellowNetworkClient, when a
\* close finds the reconnect attempts exhausted the user is given a callback
\* or event beyond the one every close gives, and no reconnect is scheduled.
ExhaustionSurfaced ==
    /\ Surfaced(clearNode, {"disconnect"})
    /\ Surfaced(yellow, {"disconnected"})

\* C27: a signature made by signStateUpdate over an update, on whatever
\* network the signer is, verifies exactly when it is checked with the same
\* signed fields against the signer's own address.
SignatureVerifiesOnAnyNetwork ==
    lastCall.op = "verifyStateUpdateSignature"
    => (lastCall.result
            <=> /\ lastCall.arg.checked = lastCall.arg.signed
                /\ lastCall.arg.expectedAddress.key = lastCall.arg.signer)

\* The last n elements of a sequence (all of it when it has fewer).
LastEntries(entries, n) ==
    IF Len(entries) <= n THEN entries
    ELSE SubSeq(entries, Len(entries) - n + 1, Len(entries))

\* C28: every recording (recordOrder, recordFill, recordStateUpdate) leaves
\* the channel's log as the last AuditLogCapacity entries of the log it
\* found with the new entry appended, so that a log never holds more than
\* the capacity and always the most recently recorded entries in recording
\* order, and leaves every other channel's log as it was.
LogKeepsMostRecent ==
    [][lastCall'.op \in {"recordOrder", "recordFill", "recordStateUpdate"}
        => /\ logs'[lastCall'.id]
                = LastEntries(Append(logs[lastCall'.id], lastCall'.arg),
                              AuditLogCapacity)
           /\ Len(logs'[lastCall'.id]) <= AuditLogCapacity
           /\ \A other \in LogKeys \ {lastCall'.id} : logs'[other] = logs[other]
      ]_vars

\* A full log has lost its oldest entry: the first recording of the run is
\* in no log any more, the channel last recorded on is full and ends with
\* the entry just recorded, and the other channel holds an entry too.
LogKeepsMostRecentWitness ==
    /\ lastCall.op \in {"recordOrder", "recordFill", "recordStateUpdate"}
    /\ Len(logs[lastCall.id]) = AuditLogCapacity
    /\ logs[lastCall.id][AuditLogCapacity] = lastCall.arg
    /\ \A k \in LogKeys : \A i \in 1..Len(logs[k]) : logs[k][i].timestamp > 1
    /\ \E k \in LogKeys \ {lastCall.id} : logs[k] # <<>>

CappedStep(before, after) ==
    LET scheduled == after.reconnectTimer /\ ~before.reconnectTimer
        opened    == after.socket = "open" /\ before.socket # "open"
    IN  /\ after.reconnectAttempts <= MaxReconnectAttempts
        /\ scheduled => /\ before.reconnectAttempts < MaxReconnectAttempts
                        /\ after.reconnectAttempts = before.reconnectAttempts + 1
        /\ opened => after.reconnectAttempts = 0
        /\ after.reconnectAttempts # before.reconnectAttempts => scheduled \/ opened

\* C31: for both clients the reconnect attempts scheduled since the last
\* successful open are counted by reconnectAttempts, which never exceeds
\* maxReconnectAttempts and returns to 0 at every successful open.
ReconnectsCapped ==
    [][CappedStep(clearNode, clearNode') /\ CappedStep(yellow, yellow')]_vars

\* One client has reopened after a scheduled reconnect, its count back at 0,
\* while the other has used up its attempts.
ReconnectsCappedWitness ==
    /\ clearNode.socket = "open"
    /\ clearNode.lastClose.scheduled
    /\ clearNode.reconnectAttempts = 0
    /\ yellow.reconnectAttempts = MaxReconnectAttempts
    /\ yellow.lastClose.exhausted

\* C32: after a handleSubmitOrder call in which signing succeeded, whether
\* the submission went through, threw or was not made at all, the last entry
\* of the channel's AuditLog is the order signed in that call: an order
\* entry carrying the nonce just taken from the channel, the page's address
\* and the user's signature.
IntentRecordedBeforeSubmission ==
    (lastCall.op = "handleSubmitOrder" /\ lastCall.console # "throw: signOrderIntent")
    => /\ lastCall.console \in {"", "throw: Not connected to matching engine"}
       /\ logs[lastCall.id] # <<>>
       /\ \A entry \in {logs[lastCall.id][Len(logs[lastCall.id])]} :
             /\ entry.type = "order"
             /\ entry.data.nonce = channels[lastCall.id].nextNonce - 1
             /\ entry.data.userAddress = page.address
             /\ entry.data.signature.signer = "alice"
             /\ entry.data.signature.value.nonce = entry.data.nonce

\* A submission threw because the client was not connected, and the log of
\* the channel ends with the signed intent.
IntentRecordedBeforeSubmissionWitness ==
    /\ lastCall.op = "handleSubmitOrder"
    /\ lastCall.console = "throw: Not connected to matching engine"
    /\ logs[lastCall.id] # <<>>
    /\ logs[lastCall.id][Len(logs[lastCall.id])].type = "order"

\* The sequence numbers of a list of state updates increase strictly.
StrictlyIncreasing(states) ==
    \A i \in 1..(Len(states) - 1) : states[i].sequence < states[i + 1].sequence

\* C33: for each channel the manager holds: latestState is absent exactly
\* when no state has been recorded since initializeChannel, and exactly when
\* the sequence is 0; when present, the channel's sequence and balances are
\* latestState's, latestState is the last recorded state, and the recorded
\* states have strictly increasing sequence numbers.
LatestStateAnchored ==
    \A c \in ChannelIds :
        channels[c] # Undefined
        => /\ auditLog[c] # Undefined
           /\ (channels[c].latestState = Undefined) <=> (auditLog[c].states = <<>>)
           /\ (channels[c].latestState = Undefined) <=> (channels[c].sequence = 0)
           /\ StrictlyIncreasing(auditLog[c].states)
           /\ channels[c].latestState # Undefined
              => /\ channels[c].sequence = channels[c].latestState.sequence
                 /\ channels[c].balances = channels[c].latestState.balances
                 /\ channels[c].latestState
                       = auditLog[c].states[Len(auditLog[c].states)]

\* A channel with two accepted updates, the second its latestState.
LatestStateAnchoredWitness ==
    \E c \in ChannelIds :
        /\ channels[c] # Undefined
        /\ lastCall.op = "updateChannelState"
        /\ lastCall.result = TRUE
        /\ Len(auditLog[c].states) = 2
        /\ channels[c].latestState = auditLog[c].states[2]

\* C34: every state update the manager has accepted for a channel (its
\* latestState and each of its recorded states) names that channel in its
\* channelId field.
AcceptedForOwnChannel ==
    \A c \in ChannelIds :
        channels[c] # Undefined
        => /\ channels[c].latestState # Undefined
              => channels[c].latestState.channelId = c
           /\ \A i \in 1..Len(auditLog[c].states) :
                 auditLog[c].states[i].channelId = c

\* C35: an updateChannelState call on a channel whose status is closed,
\* closing or disputed leaves the channel's sequence, balances and
\* latestState as they were.
SettledStateFrozen ==
    [][\A c \in ChannelIds :
          (/\ lastCall'.op = "updateChannelState"
           /\ channels[c] # Undefined
           /\ channels[c].status \in {"closed", "closing", "disputed"})
              => /\ channels'[c].sequence = channels[c].sequence
                 /\ channels'[c].balances = channels[c].balances
                 /\ channels'[c].latestState = channels[c].latestState]_vars

\* C36: in every snapshot, for each outcome, every resting bid is priced
\* strictly below every resting ask.
BookNotCrossed ==
    \A outcome \in Outcomes :
        LET bids == market.orderbook[ListOf(outcome, "BUY")]
            asks == market.orderbook[ListOf(outcome, "SELL")]
        IN  \A i \in 1..Len(bids), j \in 1..Len(asks) : bids[i].price < asks[j].price

\* A limit order came to rest on a book whose other side holds an order.
BookNotCrossedWitness ==
    /\ lastOrder.op = "processOrder" /\ lastOrder.success
    /\ lastOrder.order.type = "LIMIT"
    /\ lastOrder.order.remainingQuantity > 0
    /\ market.orderbook[ListOf(lastOrder.order.outcome, "BUY")] # <<>>
    /\ market.orderbook[ListOf(lastOrder.order.outcome, "SELL")] # <<>>

\* C37: for both clients, the close event of a socket that disconnect()
\* closed schedules no reconnect (and so opens no socket before the next
\* connect() call).
DisconnectStaysDown ==
    [][/\ clearNode.socket = "closing" => ~clearNode'.reconnectTimer
       /\ yellow.socket = "closing" => ~yellow'.reconnectTimer]_vars

\* Every message given to ws.send other than an auth_request was sent with
\* the authenticated flag set.
SentAuthenticated ==
    \A i \in 1..Len(yellowClient.transmitted) :
        yellowClient.transmitted[i].message.type # AuthRequest
        => yellowClient.transmitted[i].authenticated

\* No message was given to ws.send twice, and of two messages that were
\* queued the one submitted first was sent first.
SentOnceInOrder ==
    \A i, j \in 1..Len(yellowClient.transmitted) :
        i < j => /\ yellowClient.transmitted[i].message.call
                      # yellowClient.transmitted[j].message.call
                 /\ {yellowClient.transmitted[i].message.call,
                     yellowClient.transmitted[j].message.call}
                        \subseteq yellowClient.queued
                    => yellowClient.transmitted[i].message.call
                         < yellowClient.transmitted[j].message.call

\* C38: the YellowNetworkClient sends nothing but auth_request while its
\* authenticated flag is unset, sends each message at most once and the
\* queued ones in the order submitted, and flushMessageQueue returns.
QueueFlushedInOrder ==
    /\ SentAuthenticated
    /\ SentOnceInOrder
    /\ ~yellowClient.hung

\* C39: a promise of getUnifiedBalance, allocateToChannel or
\* withdrawFromChannel that a response settled was settled by the response
\* to its own message, so that no response settles two promises and none
\* settles another call's promise.
SettledByOwnResponse ==
    \A call \in RequestCalls :
        (yellowClient.requested[call] \in RequestTypes /\ yellowClient.settledBy[call] # 0)
        => yellowClient.settledBy[call] = call

\* The two tiers of a balance state that allocateToChannel and
\* withdrawFromChannel move funds between, as numbers.
TierBalance(balances, tier, asset) == parseFloat(balances[tier][asset])

\* C40: under allocateToChannel and withdrawFromChannel calls the unified
\* and the channel balance of each asset are never negative and always sum
\* to what they summed to before the calls, and a call that throws (at the
\* check of the unified balance, or because the Yellow client's promise is
\* rejected) leaves the balances as they were.
TransfersConserveBalances ==
    /\ [](\A asset \in {"eth", "usdc"} :
            /\ TierBalance(balanceManager.balances, "unified", asset) >= 0
            /\ TierBalance(balanceManager.balances, "channel", asset) >= 0
            /\ TierBalance(balanceManager.balances, "unified", asset)
                 + TierBalance(balanceManager.balances, "channel", asset)
               = TierBalance(SeedBalanceState, "unified", asset)
                 + TierBalance(SeedBalanceState, "channel", asset))
    /\ [][(\E call \in TransferCalls :
              /\ balanceManager'.calls[call].status \in {"thrown", "rejected"}
              /\ balanceManager'.calls[call] # balanceManager.calls[call])
          => balanceManager'.balances = balanceManager.balances]_vars
====
